---- MODULE Spec2Model ----
(***************************************************************************)
(* A model of the AddressKit ingestion core:                               *)
(*   - streamDown, the resumable retrying file fetcher                     *)
(*     (packages/core/utils/stream-down.ts);                               *)
(*   - loadGNAFAddress / sendIndexRequest, the chunked CSV loader and the  *)
(*     bulk index sink (apps/server/service/DefaultService.ts);            *)
(*   - unzipGNAFArchive, the archive extractor;                            *)
(*   - fetchGNAFPackageData, the package manifest cache.                   *)
(* Each component has its own specification over the shared variables; the *)
(* variables of the other components stay unchanged.                       *)
(***************************************************************************)
EXTENDS Integers, Sequences, FiniteSets, TLC

(***************************************************************************)
(* Bounds of the model.                                                    *)
(***************************************************************************)
\* largest retry.maxRetries option explored (the option is caller-supplied)
MaxRetriesOpt == 2
\* the known expected size explored (0 stands for "unknown")
ExpSize == 3
\* largest size of a file found at the destination before the call
MaxInitialFile == 4
\* largest Content-Length header value a response carries
MaxContentLength == 4
\* largest size the destination file is let grow to
MaxFileSize == 5

(***************************************************************************)
(* streamDown: program constants.                                          *)
(***************************************************************************)
DefaultMaxRetries == 5
DefaultInitialBackoff == 5000
DefaultMaxBackoff == 60000
DefaultBackoffMultiplier == 2
maxRestarts == 3
RestartSleepMs == 1000
OverflowSlackBytes == 1024

RETRYABLE_ERROR_CODES ==
    { "ECONNRESET", "ECONNREFUSED", "ETIMEDOUT", "ENOTFOUND", "ENETUNREACH",
      "EHOSTUNREACH", "EPIPE", "EAI_AGAIN", "EPROTO", "SOCKET_TIMEOUT",
      "CONNECT_TIMEOUT", "DATA_OVERFLOW", "SIZE_MISMATCH" }

RETRYABLE_HTTP_STATUS_CODES == {408, 429, 500, 502, 503, 504}

CORRUPT_FILE_HTTP_STATUS_CODES == {416}

\* messages are sequences of lower-cased words; these are the patterns
\* isRetryableError looks for in a lower-cased message
RetryableMessagePatterns ==
    { <<"econnreset">>, <<"socket", "hang", "up">>, <<"connection", "reset">>,
      <<"network">>, <<"timeout">>, <<"aborted">> }

\* message.includes(pattern), at word granularity
Includes(message, pattern) ==
    \E i \in 1..Len(message) :
        /\ i + Len(pattern) - 1 <= Len(message)
        /\ SubSeq(message, i, i + Len(pattern) - 1) = pattern


(***************************************************************************)
(* State.                                                                  *)
(***************************************************************************)
VARIABLES
    \* ---- streamDown ----
    opts,            \* the call's options: expectedSize, maxRetries, enableResume
    fileSize,        \* size on disk of the destination (0: absent or empty)
    pc,              \* where streamDown is: loop, request, streaming, sleep, done, failed
    attempt,         \* the retry loop's counter
    restartCount,    \* restarts from scratch after HTTP 416
    validation,      \* what the loop head found: sizeBefore, resumeFromBytes, wasDeleted
    req,             \* the request of the running attemptDownload call
    resp,            \* the response being streamed
    lastError,       \* the error the last failed attempt rejected with
    delayMs,         \* the delay of the running sleep
    result,          \* how streamDown settled
    attemptsStarted, \* attemptDownload calls made by the retry loop
    \* ---- loadGNAFAddress / sendIndexRequest ----
    csv,             \* the file being loaded: rows per chunk, the row the mapper rejects
    ldOpts,          \* refresh, and the sink's initial backoff (ADDRESSR_INDEX_BACKOFF)
    ldStatus,        \* idle, parsing, resolved, rejected, crashed
    paused,          \* whether the parser is paused
    nextChunk,       \* the next chunk the parser delivers
    actualCount,     \* rows mapped so far
    requests,        \* the sendIndexRequest calls that have not returned
    lastBulk,        \* the last bulk call that settled: chunk, body, count, response
    esIndex,         \* the documents the backend holds, each under its id
    lookup,          \* what getAddress answered
    batches,         \* the bodies handed to sendIndexRequest, in order
    \* ---- unzipGNAFArchive ----
    uzArchive,       \* the entries of the archive, in order
    uzIncomplete,    \* the tree under incomplete/: per entry the size on disk
    uzComplete,      \* the completed path: whether it exists, and its tree
    uzPc,            \* start, entries, extracting, rename, done, failed, stalled, stopped
    uzEntry,         \* the entry the transform is at
    uzResult,        \* pending, complete_path, rejected
    uzWritten,       \* the entries a write stream was opened for
    \* ---- fetchGNAFPackageData ----
    pkNow,           \* the clock
    pkCache,         \* the cache's entry for the package URL
    pkPc,            \* call, fetch, done
    pkCached,        \* cachedResponse of the running call
    pkAge,           \* age of the running call
    pkFetch,         \* how the running call's network fetch went: none, ok, failed
    pkResult,        \* what the call returned or threw
    pkCalls,         \* calls made so far
    \* ---- getCoveredStates ----
    cvInput,         \* COVERED_STATES, split at the commas
    cvCovered,       \* the list getCoveredStates returned
    cvPc,            \* call, done
    \* ---- calculateBackoff ----
    boAttempt,       \* the retry number (streamDown's attempt)
    boRetry,         \* opts.retry: initialBackoff, maxBackoff, backoffMultiplier
    boDelay,         \* the delay calculateBackoff returned
    boPc,            \* call, done
    \* ---- searchForAddress ----
    sePage,          \* the page number given (p)
    seSize,          \* the page size given (pageSize)
    seSearch,        \* the from and size sent to the backend
    \* ---- propertyCodeToName: the authority-code lookups ----
    acMaps,          \* the nine module-level cached maps, by table
    acCall,          \* the last call of the helper and what it returned
    acCalls,         \* calls made so far
    \* ---- mapToMla: the multi-line rendering ----
    mlPc,            \* "idle", "row", "mapped", "raised" or "document"
    mlAddress,       \* the structured address of the row at hand
    mlRendering,     \* what mapToMla made of it
    mlDocument,      \* the last document the mapper returned
    \* ---- emitProgress: the progress updates of an attempt ----
    prOpts,          \* progressInterval, whether there is an onProgress, whether the attempt resumes
    prPc,            \* "idle", "response", "body" or "ended"
    prNow,           \* Date.now()
    prLastEmitTime,  \* lastEmitTime
    prUpdates,       \* the times of the last two calls of onProgress
    \* ---- attemptDownload: a redirect ----
    rdFirst,         \* the attemptDownload call streamDown made
    rdCall,          \* the attemptDownload call that now awaits its response
    rdFiles,         \* the size of the file at each path, Absent for none
    rdHops,          \* redirects followed so far
    \* ---- fetchGNAFArchive: the archive file ----
    feFiles,         \* the sizes of incomplete/{basename} and of {GNAF_DIR}/{basename}, Absent for none
    feEntry,         \* feFiles when the fetch step was entered
    fePc,            \* "idle", "mkdir", "access", "download", "rename", "returned", "thrown" or "stopped"
    feDownload,      \* the streamDown call of this entry: "none", "running", "resolved", "rejected", "interrupted"
    feRuns,          \* entries of the fetch step so far
    \* ---- the documents of the address index ----
    ixSource,        \* for each id the _source of its document, NoSource for none
    ixGot,           \* what the last getAddress returned
    \* ---- the attemptDownload calls of one streamDown ----
    wrCalls,         \* the attemptDownload calls made so far, in order
    wrFile,          \* for each byte of the destination file the call that wrote it
    wrLoop,          \* the retry loop: "idle", "awaiting", "sleeping", "resolved" or "rejected"
    wrOpts           \* the options of the streamDown call

dlVars == << opts, fileSize, pc, attempt, restartCount, validation, req, resp,
             lastError, delayMs, result, attemptsStarted >>

ldVars == << csv, ldOpts, ldStatus, paused, nextChunk, actualCount, requests,
             lastBulk, esIndex, lookup, batches >>

uzVars == << uzArchive, uzIncomplete, uzComplete, uzPc, uzEntry, uzResult,
             uzWritten >>

pkVars == << pkNow, pkCache, pkPc, pkCached, pkAge, pkFetch, pkResult, pkCalls >>

cvVars == << cvInput, cvCovered, cvPc >>

boVars == << boAttempt, boRetry, boDelay, boPc >>

seVars == << sePage, seSize, seSearch >>

acVars == << acMaps, acCall, acCalls >>

mlVars == << mlPc, mlAddress, mlRendering, mlDocument >>

prVars == << prOpts, prPc, prNow, prLastEmitTime, prUpdates >>

rdVars == << rdFirst, rdCall, rdFiles, rdHops >>

feVars == << feFiles, feEntry, fePc, feDownload, feRuns >>

ixVars == << ixSource, ixGot >>

wrVars == << wrCalls, wrFile, wrLoop, wrOpts >>

vars == << dlVars, ldVars, uzVars, pkVars, cvVars, boVars, seVars, acVars, mlVars, prVars, rdVars, feVars, ixVars, wrVars >>

\* what each component leaves alone
notDl == << ldVars, uzVars, pkVars, cvVars, boVars, seVars, acVars, mlVars, prVars, rdVars, feVars, ixVars, wrVars >>
notLd == << dlVars, uzVars, pkVars, cvVars, boVars, seVars, acVars, mlVars, prVars, rdVars, feVars, ixVars, wrVars >>
notUz == << dlVars, ldVars, pkVars, cvVars, boVars, seVars, acVars, mlVars, prVars, rdVars, feVars, ixVars, wrVars >>
notPk == << dlVars, ldVars, uzVars, cvVars, boVars, seVars, acVars, mlVars, prVars, rdVars, feVars, ixVars, wrVars >>
notCv == << dlVars, ldVars, uzVars, pkVars, boVars, seVars, acVars, mlVars, prVars, rdVars, feVars, ixVars, wrVars >>
notBo == << dlVars, ldVars, uzVars, pkVars, cvVars, seVars, acVars, mlVars, prVars, rdVars, feVars, ixVars, wrVars >>
notSe == << dlVars, ldVars, uzVars, pkVars, cvVars, boVars, acVars, mlVars, prVars, rdVars, feVars, ixVars, wrVars >>
notAc == << dlVars, ldVars, uzVars, pkVars, cvVars, boVars, seVars, mlVars, prVars, rdVars, feVars, ixVars, wrVars >>
notMl == << dlVars, ldVars, uzVars, pkVars, cvVars, boVars, seVars, acVars, prVars, rdVars, feVars, ixVars, wrVars >>
notPr == << dlVars, ldVars, uzVars, pkVars, cvVars, boVars, seVars, acVars, mlVars, rdVars, feVars, ixVars, wrVars >>
notRd == << dlVars, ldVars, uzVars, pkVars, cvVars, boVars, seVars, acVars, mlVars, prVars, feVars, ixVars, wrVars >>
notFe == << dlVars, ldVars, uzVars, pkVars, cvVars, boVars, seVars, acVars, mlVars, prVars, rdVars, ixVars, wrVars >>
notIx == << dlVars, ldVars, uzVars, pkVars, cvVars, boVars, seVars, acVars, mlVars, prVars, rdVars, feVars, wrVars >>
notWr == << dlVars, ldVars, uzVars, pkVars, cvVars, boVars, seVars, acVars, mlVars, prVars, rdVars, feVars, ixVars >>

(***************************************************************************)
(* streamDown: helpers.                                                    *)
(***************************************************************************)
NoRange == -1
NoHeader == -1

Min(a, b) == IF a <= b THEN a ELSE b

RECURSIVE Pow(_, _)
Pow(b, n) == IF n <= 0 THEN 1 ELSE b * Pow(b, n - 1)

\* Math.round of the non-negative rational n / d
RoundDiv(n, d) == (2 * n + d) \div (2 * d)

\* the reason phrase the server sends with a status
StatusMessage(status) ==
    CASE status = 200 -> <<"ok">>
      [] status = 203 -> <<"non-authoritative", "information">>
      [] status = 206 -> <<"partial", "content">>
      [] status = 302 -> <<"found">>
      [] status = 404 -> <<"not", "found">>
      [] status = 408 -> <<"request", "timeout">>
      [] status = 416 -> <<"range", "not", "satisfiable">>
      [] status = 429 -> <<"too", "many", "requests">>
      [] status = 500 -> <<"internal", "server", "error">>
      [] status = 502 -> <<"bad", "gateway">>
      [] status = 503 -> <<"service", "unavailable">>
      [] status = 504 -> <<"gateway", "timeout">>
      [] status = 511 -> <<"network", "authentication", "required">>
      [] OTHER -> << >>

\* `HTTP ${statusCode}: ${statusMessage}` with error.code = `HTTP_${statusCode}`
HttpError(status) ==
    [ code |-> "HTTP_" \o ToString(status),
      message |-> <<"http", ToString(status)>> \o StatusMessage(status),
      requiresRestart |-> FALSE ]

CodedError(code, message) ==
    [ code |-> code, message |-> message, requiresRestart |-> FALSE ]

NoError == [ code |-> "", message |-> << >>, requiresRestart |-> FALSE ]

isRetryableError(error) ==
    \/ error.code # "" /\ error.code \in RETRYABLE_ERROR_CODES
    \/ \E p \in RetryableMessagePatterns : Includes(error.message, p)

\* calculateBackoff with the jitter taken on the delay before the cap
calculateBackoff_Uncapped(att, initialBackoff, maxBackoff, multiplier, random4) ==
    LET exponentialDelay == initialBackoff * Pow(multiplier, att)
        sixteenths == exponentialDelay * 16 + exponentialDelay * (2 * random4 - 4)
    IN  RoundDiv(sixteenths, 16)

\* calculateBackoff; Math.random() is random4 / 4
calculateBackoff(att, initialBackoff, maxBackoff, multiplier, random4) ==
    LET exponentialDelay == initialBackoff * Pow(multiplier, att)
        cappedDelay == Min(exponentialDelay, maxBackoff)
        \* cappedDelay + cappedDelay * 0.25 * (random * 2 - 1), over 16
        sixteenths == cappedDelay * 16 + cappedDelay * (2 * random4 - 4)
    IN  RoundDiv(sixteenths, 16)

\* validatePartialFile taking a file of exactly the expected size for a partial
validatePartialFile_KeepsFullFile(existingSize, expectedSize) ==
    IF existingSize = 0
    THEN [ resumeFromBytes |-> 0, wasDeleted |-> FALSE ]
    ELSE IF expectedSize <= 0
    THEN [ resumeFromBytes |-> existingSize, wasDeleted |-> FALSE ]
    ELSE IF existingSize > expectedSize
    THEN [ resumeFromBytes |-> 0, wasDeleted |-> TRUE ]
    ELSE [ resumeFromBytes |-> existingSize, wasDeleted |-> FALSE ]

validatePartialFile(existingSize, expectedSize) ==
    IF existingSize = 0
    THEN [ resumeFromBytes |-> 0, wasDeleted |-> FALSE ]
    ELSE IF expectedSize <= 0
    THEN [ resumeFromBytes |-> existingSize, wasDeleted |-> FALSE ]
    ELSE IF existingSize >= expectedSize
    THEN [ resumeFromBytes |-> 0, wasDeleted |-> TRUE ]
    ELSE [ resumeFromBytes |-> existingSize, wasDeleted |-> FALSE ]

\* the request attemptDownload builds for existingSize
BuildRequest(existingSize, retryAttempt, enableResume) ==
    LET isResuming == existingSize > 0
    IN  [ existingSize |-> existingSize,
          isResuming |-> isResuming,
          flags |-> IF isResuming THEN "a" ELSE "w",
          range |-> IF isResuming THEN existingSize ELSE NoRange,
          retryAttempt |-> retryAttempt,
          enableResume |-> enableResume ]

\* fs.createWriteStream: "w" truncates, "a" keeps what is there
OpenFile(size, flags) == IF flags = "a" THEN size ELSE 0

NoRequest == BuildRequest(0, 0, FALSE)

NoResponse ==
    [ status |-> 0, contentLength |-> NoHeader, totalBytes |-> 0,
      bytesDownloaded |-> 0, bytesWrittenThisSession |-> 0,
      serverSupportsResume |-> FALSE ]

NoValidation ==
    [ sizeBefore |-> 0, resumeFromBytes |-> 0, wasDeleted |-> FALSE ]

NoResult ==
    [ kind |-> "none", code |-> "", attempts |-> 0, isRetryable |-> FALSE,
      bytesDownloaded |-> 0 ]

DownloadError(code, attempts, isRetryable, bytesDownloaded) ==
    [ kind |-> "rejected", code |-> code, attempts |-> attempts,
      isRetryable |-> isRetryable, bytesDownloaded |-> bytesDownloaded ]

\* totalBytes of a response
TotalBytes(status, contentLength, existingSize, expectedSize) ==
    IF status = 206 /\ contentLength # NoHeader
    THEN existingSize + contentLength
    ELSE IF contentLength # NoHeader
    THEN contentLength
    ELSE expectedSize

\* the overflow threshold taken from the total of the file, not from the
\* bytes expected in this session
Overflows_AgainstTotal(totalBytes, expectedBytesThisSession, received) ==
    /\ totalBytes > 0
    /\ received * 100 > totalBytes * 101
    /\ received > totalBytes + OverflowSlackBytes

\* bytesWrittenThisSession + chunk.length > overflowThreshold, where
\* overflowThreshold = max(expected * 1.01, expected + 1024)
Overflows(totalBytes, expectedBytesThisSession, received) ==
    /\ totalBytes > 0
    /\ received * 100 > expectedBytesThisSession * 101
    /\ received > expectedBytesThisSession + OverflowSlackBytes

\* the restart limit tested one restart early
RestartLimitExceeded_Early(count) == count >= maxRestarts

RestartLimitExceeded(count) == count > maxRestarts

\* the retry limit tested one attempt early
RetriesExhausted_Early(att, maxRetries) == att + 1 >= maxRetries

RetriesExhausted(att, maxRetries) == att >= maxRetries

RECURSIVE Join(_)
\* the words of a message as one string
Join(message) ==
    IF message = << >> THEN ""
    ELSE IF Len(message) = 1 THEN Head(message)
    ELSE Head(message) \o " " \o Join(Tail(message))

\* attempt-- before the `continue` that follows a 416
RestartAttempt(att) == att - 1

\* statuses the server may answer with
RedirectStatuses == {301, 302}
BodyStatuses == {200, 203, 206}
ErrorStatuses == {404, 511}
ContentLengths == {NoHeader} \cup (0..MaxContentLength)
ChunkLengths == {1, 2, OverflowSlackBytes, OverflowSlackBytes + ExpSize + 1}

\* the file sizes enumerated: a few bytes, with at most one chunk of
\* OverflowSlackBytes among them
FileSizeEnumerated(size) ==
    /\ size % OverflowSlackBytes <= MaxFileSize
    /\ size < 2 * OverflowSlackBytes
RetryOptions == -1..MaxRetriesOpt

\* errors of the transport, as Node reports them
TransportErrors ==
    { CodedError("ECONNRESET", <<"read", "econnreset">>),
      CodedError("CERT_HAS_EXPIRED", <<"certificate", "has", "expired">>) }

(***************************************************************************)
(* streamDown: the initial state and the steps.                            *)
(***************************************************************************)
DlInit ==
    /\ opts \in [ expectedSize : {0, ExpSize},
                  maxRetries : RetryOptions,
                  enableResume : BOOLEAN ]
    /\ fileSize \in 0..MaxInitialFile
    /\ pc = "loop"
    /\ attempt = 0
    /\ restartCount = 0
    /\ validation = NoValidation
    /\ req = NoRequest
    /\ resp = NoResponse
    /\ lastError = NoError
    /\ delayMs = 0
    /\ result = NoResult
    /\ attemptsStarted = 0

\* the catch block of the retry loop, entered with the error the attempt
\* rejected with; sizeSeen is what getExistingFileSize reads there
Catch(error, sizeSeen) ==
    /\ lastError' = error
    /\ validation' = NoValidation
    /\ req' = NoRequest
    /\ resp' = NoResponse
    /\ IF error.requiresRestart
       THEN /\ restartCount' = restartCount + 1
            /\ IF RestartLimitExceeded(restartCount + 1)
               THEN /\ result' = DownloadError("CORRUPT_FILE_LOOP", attempt + 1, FALSE, 0)
                    /\ pc' = "failed"
                    /\ UNCHANGED << attempt, delayMs >>
               ELSE /\ attempt' = RestartAttempt(attempt)
                    /\ delayMs' = RestartSleepMs
                    /\ pc' = "sleep"
                    /\ UNCHANGED result
       ELSE /\ UNCHANGED restartCount
            /\ LET retryable == isRetryableError(error)
               IN  IF ~retryable \/ RetriesExhausted(attempt, opts.maxRetries)
                   THEN /\ result' = DownloadError(error.code, attempt + 1, retryable, sizeSeen)
                        /\ pc' = "failed"
                        /\ UNCHANGED << attempt, delayMs >>
                   ELSE /\ \E random4 \in 0..3 :
                              delayMs' = calculateBackoff(attempt, DefaultInitialBackoff,
                                             DefaultMaxBackoff, DefaultBackoffMultiplier, random4)
                        /\ pc' = "sleep"
                        /\ UNCHANGED << attempt, result >>

\* the head of the retry loop: validate the partial file, then call
\* attemptDownload, which opens the file and issues the request
LoopHead ==
    /\ pc = "loop"
    /\ attempt <= opts.maxRetries
    /\ LET v == IF opts.enableResume
                THEN validatePartialFile(fileSize, opts.expectedSize)
                ELSE [ resumeFromBytes |-> 0, wasDeleted |-> FALSE ]
           afterValidation == IF v.wasDeleted THEN 0 ELSE fileSize
           r == BuildRequest(v.resumeFromBytes, attempt, opts.enableResume)
       IN  /\ validation' = [ sizeBefore |-> fileSize,
                              resumeFromBytes |-> v.resumeFromBytes,
                              wasDeleted |-> v.wasDeleted ]
           /\ req' = r
           /\ fileSize' = OpenFile(afterValidation, r.flags)
    /\ resp' = NoResponse
    /\ attemptsStarted' = attemptsStarted + 1
    /\ pc' = "request"
    /\ UNCHANGED << opts, attempt, restartCount, lastError, delayMs, result >>
    /\ UNCHANGED notDl

\* the loop ends without a return or a throw from inside it
LoopExit ==
    /\ pc = "loop"
    /\ attempt > opts.maxRetries
    /\ result' = DownloadError(Join(lastError.message), opts.maxRetries + 1, FALSE, fileSize)
    /\ pc' = "failed"
    /\ UNCHANGED << opts, fileSize, attempt, restartCount, validation, req, resp,
                    lastError, delayMs, attemptsStarted >>
    /\ UNCHANGED notDl

\* the sleep ends; the loop's attempt++ runs
Wake ==
    /\ pc = "sleep"
    /\ attempt' = attempt + 1
    /\ delayMs' = 0
    /\ pc' = "loop"
    /\ UNCHANGED << opts, fileSize, restartCount, validation, req, resp,
                    lastError, result, attemptsStarted >>
    /\ UNCHANGED notDl

\* 3xx with a Location header: follow it with the same existingSize
RespRedirect ==
    /\ pc = "request"
    /\ \E status \in RedirectStatuses :
          resp' = [ NoResponse EXCEPT !.status = status ]
    /\ fileSize' = OpenFile(IF req.isResuming THEN fileSize ELSE 0, req.flags)
    /\ UNCHANGED << opts, pc, attempt, restartCount, validation, req,
                    lastError, delayMs, result, attemptsStarted >>
    /\ UNCHANGED notDl

\* HTTP 416: delete the partial file and reject with requiresRestart
Resp416 ==
    /\ pc = "request"
    /\ fileSize' = 0
    /\ Catch([ code |-> "HTTP_416_RESTART",
               message |-> <<"http", "416", "range", "not", "satisfiable">>,
               requiresRestart |-> TRUE ], 0)
    /\ UNCHANGED << opts, attemptsStarted >>
    /\ UNCHANGED notDl

\* a status of RETRYABLE_HTTP_STATUS_CODES
RespRetryableStatus ==
    /\ pc = "request"
    /\ \E status \in RETRYABLE_HTTP_STATUS_CODES : Catch(HttpError(status), fileSize)
    /\ UNCHANGED << opts, fileSize, attemptsStarted >>
    /\ UNCHANGED notDl

\* any other status >= 400
RespErrorStatus ==
    /\ pc = "request"
    /\ \E status \in ErrorStatuses : Catch(HttpError(status), fileSize)
    /\ UNCHANGED << opts, fileSize, attemptsStarted >>
    /\ UNCHANGED notDl

\* the arguments of the attemptDownload call made when a Range request is
\* answered with 200: enableResume false, existingSize 0, the same
\* retryAttempt
RestartWithoutResume_KeepsRange(existingSize, retryAttempt) ==
    BuildRequest(existingSize, retryAttempt, TRUE)

RestartWithoutResume(existingSize, retryAttempt) ==
    BuildRequest(0, retryAttempt, FALSE)

\* 200 to a Range request: delete the file and call attemptDownload again
\* with enableResume false and existingSize 0
RespRangeIgnored ==
    /\ pc = "request"
    /\ req.isResuming
    /\ resp' = [ NoResponse EXCEPT !.status = 200 ]
    /\ req' = RestartWithoutResume(req.existingSize, req.retryAttempt)
    /\ fileSize' = OpenFile(0, req'.flags)
    /\ UNCHANGED << opts, pc, attempt, restartCount, validation,
                    lastError, delayMs, result, attemptsStarted >>
    /\ UNCHANGED notDl

\* a response whose body is streamed to the file
RespBody ==
    /\ pc = "request"
    /\ \E status \in BodyStatuses, contentLength \in ContentLengths :
          /\ ~(req.isResuming /\ status = 200)
          /\ LET serverSupportsResume == status = 206
                 totalBytes == TotalBytes(status, contentLength, req.existingSize,
                                          opts.expectedSize)
             IN  resp' = [ status |-> status,
                           contentLength |-> contentLength,
                           totalBytes |-> totalBytes,
                           bytesDownloaded |->
                               IF serverSupportsResume THEN req.existingSize ELSE 0,
                           bytesWrittenThisSession |-> 0,
                           serverSupportsResume |-> serverSupportsResume ]
    /\ pc' = "streaming"
    /\ validation' = NoValidation
    /\ UNCHANGED << opts, fileSize, attempt, restartCount, req,
                    lastError, delayMs, result, attemptsStarted >>
    /\ UNCHANGED notDl

\* response 'data'; a body framed by Content-Length never carries more
\* than that many bytes
Data ==
    /\ pc = "streaming"
    /\ \E len \in ChunkLengths :
          /\ \/ resp.contentLength = NoHeader
             \/ resp.bytesWrittenThisSession + len <= resp.contentLength
          /\ LET expectedBytesThisSession ==
                     IF resp.serverSupportsResume
                     THEN resp.totalBytes - req.existingSize
                     ELSE resp.totalBytes
             IN  IF Overflows(resp.totalBytes, expectedBytesThisSession,
                              resp.bytesWrittenThisSession + len)
                 THEN \* the file is deleted when its close completes, which
                      \* may be after the catch block has read its size
                      /\ fileSize' = 0
                      /\ \E sizeSeen \in {fileSize, 0} :
                            Catch(CodedError("DATA_OVERFLOW",
                                      <<"data", "overflow", "detected">>), sizeSeen)
                 ELSE /\ FileSizeEnumerated(fileSize + len)
                      /\ fileSize' = fileSize + len
                      /\ resp' = [ resp EXCEPT
                                     !.bytesWrittenThisSession = @ + len,
                                     !.bytesDownloaded = @ + len ]
                      /\ UNCHANGED << pc, attempt, restartCount, validation, req,
                                      lastError, delayMs, result >>
    /\ UNCHANGED << opts, attemptsStarted >>
    /\ UNCHANGED notDl

\* response 'end', with the 'close' that follows it: file.end's callback
\* verifies the size; the close handler rejects with ECONNRESET when fewer
\* bytes than totalBytes were counted. Either may run first. A body framed
\* by Content-Length ends only when all of it has arrived.
End ==
    /\ pc = "streaming"
    /\ \/ resp.contentLength = NoHeader
       \/ resp.bytesWrittenThisSession = resp.contentLength
    /\ LET closeFires == resp.totalBytes > 0 /\ resp.bytesDownloaded < resp.totalBytes
           mismatch == resp.totalBytes > 0 /\ fileSize # resp.totalBytes
           after == IF mismatch THEN 0 ELSE fileSize
       IN  /\ fileSize' = after
           /\ \E closeFirst \in BOOLEAN :
                 IF closeFirst /\ closeFires
                 THEN \E sizeSeen \in {fileSize, after} :
                         Catch(CodedError("ECONNRESET",
                                   <<"connection", "closed", "prematurely">>), sizeSeen)
                 ELSE IF mismatch
                 THEN Catch(CodedError("SIZE_MISMATCH",
                                <<"file", "size", "mismatch">>), 0)
                 ELSE /\ pc' = "done"
                      /\ result' = [ NoResult EXCEPT !.kind = "resolved" ]
                      /\ UNCHANGED << attempt, restartCount, validation, req, resp,
                                      lastError, delayMs >>
    /\ UNCHANGED << opts, attemptsStarted >>
    /\ UNCHANGED notDl

\* the connection closes before the expected bytes arrived
PrematureClose ==
    /\ pc = "streaming"
    /\ resp.totalBytes > 0
    /\ resp.bytesDownloaded < resp.totalBytes
    /\ Catch(CodedError("ECONNRESET", <<"connection", "closed", "prematurely">>),
             fileSize)
    /\ UNCHANGED << opts, fileSize, attemptsStarted >>
    /\ UNCHANGED notDl

\* the connect timer left running after the response has arrived
ConnectTimerArmed_NotCleared(p) == p \in {"request", "streaming"}

\* the connect timer is set when the request is issued and cleared at the
\* head of the response callback
ConnectTimerArmed(p) == p = "request"

\* the socket-inactivity timer is set in the response callback, set again
\* by every 'data', and cleared by 'end' and by every abort
SocketTimerArmed(p) == p = "streaming"

\* the connect timer fires before the response arrives
ConnectTimeout ==
    /\ ConnectTimerArmed(pc)
    /\ Catch(CodedError("CONNECT_TIMEOUT", <<"connection", "timeout", "after">>),
             fileSize)
    /\ UNCHANGED << opts, fileSize, attemptsStarted >>
    /\ UNCHANGED notDl

\* the socket-inactivity timer fires while the body is streamed
SocketTimeout ==
    /\ SocketTimerArmed(pc)
    /\ Catch(CodedError("SOCKET_TIMEOUT", <<"socket", "timeout">>), fileSize)
    /\ UNCHANGED << opts, fileSize, attemptsStarted >>
    /\ UNCHANGED notDl

\* the request's own 'timeout' event
RequestTimeout ==
    /\ pc \in {"request", "streaming"}
    /\ Catch(CodedError("ETIMEDOUT", <<"request", "timeout", "after">>), fileSize)
    /\ UNCHANGED << opts, fileSize, attemptsStarted >>
    /\ UNCHANGED notDl

\* 'error' of the request or of the response
TransportError ==
    /\ pc \in {"request", "streaming"}
    /\ \E error \in TransportErrors : Catch(error, fileSize)
    /\ UNCHANGED << opts, fileSize, attemptsStarted >>
    /\ UNCHANGED notDl

DlNext ==
    \/ LoopHead
    \/ LoopExit
    \/ Wake
    \/ RespRedirect
    \/ Resp416
    \/ RespRetryableStatus
    \/ RespErrorStatus
    \/ RespRangeIgnored
    \/ RespBody
    \/ Data
    \/ End
    \/ PrematureClose
    \/ ConnectTimeout
    \/ SocketTimeout
    \/ RequestTimeout
    \/ TransportError

(***************************************************************************)
(* loadGNAFAddress / sendIndexRequest: bounds, constants, helpers.         *)
(***************************************************************************)
\* most chunks the parser cuts a file into
MaxChunks == 2
\* most rows of one chunk (0: a chunk without data rows)
MaxChunkRows == 2
\* most failed submissions of one batch explored (the code sets no limit)
MaxBulkFailures == 2

\* the defaults of ADDRESSR_INDEX_BACKOFF, _INCREMENT and _MAX
DefaultIndexBackoff == 30000
DefaultIndexBackoffIncrement == 30000
DefaultIndexBackoffMax == 600000

\* values of ADDRESSR_INDEX_BACKOFF explored: the default, one from which
\* the cap is reached within MaxBulkFailures failures, and one above the cap
InitialBackoffs ==
    { DefaultIndexBackoff,
      DefaultIndexBackoffMax - DefaultIndexBackoffIncrement - (DefaultIndexBackoffIncrement \div 2),
      DefaultIndexBackoffMax + DefaultIndexBackoffIncrement }

RECURSIVE SumTo(_, _)
SumTo(lens, n) == IF n <= 0 THEN 0 ELSE lens[n] + SumTo(lens, n - 1)

\* the rows of chunk i, numbered through the file from 1
ChunkRows(file, i) ==
    [ k \in 1..file.chunks[i] |-> SumTo(file.chunks, i - 1) + k ]

\* the files explored: 1..MaxChunks chunks of 0..MaxChunkRows rows, at most
\* one row (bad, 0 for none) being structurally unmappable
CsvFiles ==
    { f \in [ chunks : UNION { [1..n -> 0..MaxChunkRows] : n \in 1..MaxChunks },
              bad : 0..(MaxChunks * MaxChunkRows) ] :
        f.bad <= SumTo(f.chunks, Len(f.chunks)) }

\* mapAddressDetails raises on a row it cannot structure (mla of more than
\* four lines); otherwise the item carries the row's pid
mapAddressDetailsRaises(file, row) == row = file.bad
mapAddressDetails(row) == [ pid |-> row ]

\* position of the first row of rows on which the mapper raises, 0 if none
FirstRaise(file, rows) ==
    IF \E k \in 1..Len(rows) : mapAddressDetailsRaises(file, rows[k])
    THEN CHOOSE k \in 1..Len(rows) :
            /\ mapAddressDetailsRaises(file, rows[k])
            /\ \A j \in 1..(k - 1) : ~mapAddressDetailsRaises(file, rows[j])
    ELSE 0

\* the two entries pushed per row: the index directive and the document
DocId_Unprefixed(pid) == ToString(pid)
DocId(pid) == "/addresses/" \o ToString(pid)
IndexDirective_WithoutId(item) == [ index |-> "", doc |-> 0 ]
IndexDirective(item) == [ index |-> DocId(item.pid), doc |-> 0 ]
Document(item) == [ index |-> "", doc |-> item.pid ]

RECURSIVE BuildIndexingBody(_)
BuildIndexingBody(rows) ==
    IF rows = << >> THEN << >>
    ELSE LET item == mapAddressDetails(Head(rows))
         IN  << IndexDirective(item), Document(item) >> \o BuildIndexingBody(Tail(rows))

\* the ids a body asks the backend to index
BodyIds(body) == { body[k].index : k \in { j \in 1..Len(body) : body[j].index # "" } }

\* the pairs of a body: the id of each directive with the document after it
BodyPairs(body) ==
    { [ id |-> body[2 * k - 1].index, pid |-> body[2 * k].doc ] : k \in 1..(Len(body) \div 2) }

\* the ids the backend holds
EsIds(store) == { d.id : d \in store }

\* the backend's index operation: a document replaces the one held under
\* its id; a directive without id makes the backend choose a new id
BackendIndex(store, pairs) ==
    LET named == { d \in pairs : d.id # "" }
        unnamed == { [ id |-> "auto-" \o ToString(Cardinality(store)) \o "-" \o ToString(d.pid),
                       pid |-> d.pid ] : d \in pairs \ named }
    IN  { d \in store : d.id \notin EsIds(named) } \cup named \cup unnamed

\* getAddress: esClient.get({ id: `/addresses/${addressId}` }) and the
\* status codes of the answer
AddressPath(addressId) == "/addresses/" \o ToString(addressId)
NoLookup ==
    [ op |-> "", backend |-> "", addressId |-> 0, statusCode |-> 0, pid |-> 0 ]

\* how the backend takes a request: it answers, or the client throws a
\* ResponseError for a missing index, a ConnectionError, a TimeoutError
BackendStates ==
    { "answers", "index_not_found_exception", "ConnectionError", "TimeoutError" }

\* the error the client throws: only a ResponseError carries a body, and no
\* error of this client carries a displayName
ThrownBy(backend) ==
    [ bodyFound |-> "",
      bodyErrorType |-> IF backend = "index_not_found_exception" THEN backend ELSE "",
      displayName |-> "" ]

\* the ResponseError of a get for an id the index does not hold
NotFoundError == [ bodyFound |-> "false", bodyErrorType |-> "", displayName |-> "" ]

\* the catch block of getAddress
getAddressCatch(osError) ==
    IF osError.bodyFound = "false" THEN 404
    ELSE IF osError.bodyErrorType = "index_not_found_exception" THEN 503
    ELSE 500

\* the catch block of getAddresses
getAddressesCatch(osError) ==
    IF osError.bodyErrorType = "index_not_found_exception" THEN 503
    ELSE IF osError.displayName = "RequestTimeout" THEN 504
    ELSE 500

getAddress(store, addressId, backend) ==
    IF backend # "answers"
    THEN [ op |-> "getAddress", backend |-> backend, addressId |-> addressId,
           statusCode |-> getAddressCatch(ThrownBy(backend)), pid |-> 0 ]
    ELSE IF \E d \in store : d.id = AddressPath(addressId)
    THEN [ op |-> "getAddress", backend |-> backend, addressId |-> addressId,
           statusCode |-> 200,
           pid |-> (CHOOSE d \in store : d.id = AddressPath(addressId)).pid ]
    ELSE [ op |-> "getAddress", backend |-> backend, addressId |-> addressId,
           statusCode |-> getAddressCatch(NotFoundError), pid |-> 0 ]

\* getAddresses: the search answers, or its catch block picks the status
getAddresses(backend) ==
    [ op |-> "getAddresses", backend |-> backend, addressId |-> 0,
      statusCode |-> IF backend = "answers" THEN 200
                     ELSE getAddressesCatch(ThrownBy(backend)),
      pid |-> 0 ]

\* parser.pause() as the first statement of the chunk callback
parserPause_Forgotten(wasPaused) == wasPaused
parserPause(wasPaused) == TRUE

\* a bulk call settles with a response or by throwing
BulkResponses ==
    { r \in [ thrown : BOOLEAN, errors : BOOLEAN, bodyErrors : BOOLEAN ] :
        r.thrown => (~r.errors /\ ~r.bodyErrors) }
NoBulkResponse == [ thrown |-> FALSE, errors |-> FALSE, bodyErrors |-> FALSE ]

\* resp?.errors || resp.body?.errors
BulkResponseFailed_TopLevelOnly(response) == response.errors
BulkResponseFailed(response) == response.errors \/ response.bodyErrors

\* backoff += increment; backoff = Math.min(max, backoff)
NextIndexBackoff(backoff) ==
    Min(DefaultIndexBackoffMax, backoff + DefaultIndexBackoffIncrement)

\* the body of the next submission of a batch: the same array
Resubmitted(body) == body

NoBulk ==
    [ chunk |-> 0, body |-> << >>, count |-> 0, refresh |-> FALSE,
      response |-> NoBulkResponse ]

\* what an earlier run over the same file, without a clear of the index
\* since, has left in the backend
EarlierRun(file) ==
    BackendIndex({}, BodyPairs(BuildIndexingBody(
        [ k \in 1..SumTo(file.chunks, Len(file.chunks)) |-> k ])))

\* refresh is handed on to the bulk call and read nowhere else: its default
\* ({ refresh = false }) is the value explored
LdInit ==
    /\ csv \in CsvFiles
    /\ ldOpts \in [ refresh : { FALSE }, initialBackoff : InitialBackoffs ]
    /\ ldStatus = "parsing"
    /\ paused = FALSE
    /\ nextChunk = 1
    /\ actualCount = 0
    /\ requests = {}
    /\ lastBulk = NoBulk
    /\ esIndex \in { {}, EarlierRun(csv) }
    /\ lookup = NoLookup
    /\ batches = << >>

(***************************************************************************)
(* loadGNAFAddress / sendIndexRequest: the actions.                        *)
(***************************************************************************)
\* sendIndexRequest(indexingBody, undefined, {refresh}) up to its first bulk call
NewRequest(chunk, body) ==
    [ chunk |-> chunk, body |-> body, backoff |-> ldOpts.initialBackoff,
      count |-> 0, at |-> "bulk" ]

\* the chunk callback: the parser delivers a chunk only while it runs
ChunkCallback ==
    /\ ldStatus = "parsing"
    /\ ~paused
    /\ nextChunk <= Len(csv.chunks)
    /\ LET rows == ChunkRows(csv, nextChunk)
           raise == FirstRaise(csv, rows)
           indexingBody == BuildIndexingBody(rows)
       IN  IF raise > 0
           THEN \* the mapper's exception leaves the callback after pause()
                /\ paused' = parserPause(paused)
                /\ actualCount' = actualCount + (raise - 1)
                /\ requests' = requests
                /\ batches' = batches
                /\ ldStatus' \in {"rejected", "crashed"}
           ELSE IF Len(indexingBody) > 0
           THEN /\ paused' = parserPause(paused)
                /\ actualCount' = actualCount + Len(rows)
                /\ requests' = requests \cup {NewRequest(nextChunk, indexingBody)}
                /\ batches' = Append(batches, indexingBody)
                /\ ldStatus' = ldStatus
           ELSE \* nothing to process: pause() then resume()
                /\ paused' = FALSE
                /\ UNCHANGED << actualCount, requests, ldStatus, batches >>
    /\ nextChunk' = nextChunk + 1
    /\ UNCHANGED << csv, ldOpts, lastBulk, esIndex, lookup >>
    /\ UNCHANGED notLd

\* the bulk call returns a response without errors: sendIndexRequest
\* returns and the callback's then() resumes the parser
BulkReturns ==
    /\ ldStatus # "crashed"
    /\ \E r \in requests, response \in BulkResponses :
          /\ r.at = "bulk"
          /\ ~response.thrown
          /\ ~BulkResponseFailed(response)
          /\ esIndex' = IF response.errors \/ response.bodyErrors
                        THEN esIndex
                        ELSE BackendIndex(esIndex, BodyPairs(r.body))
          /\ lastBulk' = [ chunk |-> r.chunk, body |-> r.body, count |-> r.count,
                           refresh |-> ldOpts.refresh, response |-> response ]
          /\ requests' = requests \ {r}
          /\ paused' = FALSE
    /\ UNCHANGED << csv, ldOpts, ldStatus, nextChunk, actualCount >>
    /\ UNCHANGED << lookup, batches >>
    /\ UNCHANGED notLd

\* the bulk call throws, or its response reports errors: the catch block
\* logs and starts the backoff timer; the backend may have taken some items
BulkFails ==
    /\ ldStatus # "crashed"
    /\ \E r \in requests, response \in BulkResponses :
          /\ r.at = "bulk"
          /\ r.count < MaxBulkFailures
          /\ response.thrown \/ BulkResponseFailed(response)
          /\ \E taken \in SUBSET BodyPairs(r.body) :
                /\ (response.errors /\ ~response.bodyErrors) => taken = {}
                /\ esIndex' = BackendIndex(esIndex, taken)
          /\ lastBulk' = [ chunk |-> r.chunk, body |-> r.body, count |-> r.count,
                           refresh |-> ldOpts.refresh, response |-> response ]
          /\ requests' = (requests \ {r}) \cup {[ r EXCEPT !.at = "backoff" ]}
    /\ UNCHANGED << csv, ldOpts, ldStatus, paused, nextChunk, actualCount >>
    /\ UNCHANGED << lookup, batches >>
    /\ UNCHANGED notLd

\* the backoff timer fires: the backoff grows and the loop submits again
BackoffElapsed ==
    /\ ldStatus # "crashed"
    /\ \E r \in requests :
          /\ r.at = "backoff"
          /\ requests' = (requests \ {r}) \cup
                {[ r EXCEPT !.at = "bulk",
                            !.body = Resubmitted(r.body),
                            !.backoff = NextIndexBackoff(r.backoff),
                            !.count = r.count + 1 ]}
    /\ UNCHANGED << csv, ldOpts, ldStatus, paused, nextChunk, actualCount,
                    lastBulk, esIndex >>
    /\ UNCHANGED << lookup, batches >>
    /\ UNCHANGED notLd

\* complete called as soon as the input is exhausted, paused or not
CompleteFires_WhilePaused(isPaused, next, chunks) == next > chunks

\* the parser calls complete when the input is exhausted and it is not
\* paused: after the last chunk's callback has resumed it
CompleteFires(isPaused, next, chunks) == ~isPaused /\ next > chunks

\* the parser's complete callback: the input is exhausted and the parser runs
Complete ==
    /\ ldStatus = "parsing"
    /\ CompleteFires(paused, nextChunk, Len(csv.chunks))
    /\ ldStatus' = "resolved"
    /\ UNCHANGED << csv, ldOpts, paused, nextChunk, actualCount, requests,
                    lastBulk, esIndex >>
    /\ UNCHANGED << lookup, batches >>
    /\ UNCHANGED notLd

\* the parser's error callback: reading the file failed
ParseError ==
    /\ ldStatus = "parsing"
    /\ nextChunk <= Len(csv.chunks)
    /\ ldStatus' = "rejected"
    /\ UNCHANGED << csv, ldOpts, paused, nextChunk, actualCount, requests,
                    lastBulk, esIndex >>
    /\ UNCHANGED << lookup, batches >>
    /\ UNCHANGED notLd

\* getAddress(addressId), once the load has completed: the backend answers
\* the get, or the index is missing, or the call fails otherwise
GetAddress ==
    /\ ldStatus = "resolved"
    /\ requests = {}
    /\ lookup = NoLookup
    /\ \E addressId \in 1..(SumTo(csv.chunks, Len(csv.chunks)) + 1),
          backend \in BackendStates :
          lookup' = getAddress(esIndex, addressId, backend)
    /\ UNCHANGED << csv, ldOpts, ldStatus, paused, nextChunk, actualCount, requests,
                    lastBulk, esIndex, batches >>
    /\ UNCHANGED notLd

\* getAddresses(url, swagger, q, p), once the load has completed
GetAddresses ==
    /\ ldStatus = "resolved"
    /\ requests = {}
    /\ lookup = NoLookup
    /\ \E backend \in BackendStates : lookup' = getAddresses(backend)
    /\ UNCHANGED << csv, ldOpts, ldStatus, paused, nextChunk, actualCount, requests,
                    lastBulk, esIndex, batches >>
    /\ UNCHANGED notLd

LdNext ==
    \/ GetAddress
    \/ GetAddresses
    \/ ChunkCallback
    \/ BulkReturns
    \/ BulkFails
    \/ BackoffElapsed
    \/ Complete
    \/ ParseError

(***************************************************************************)
(* unzipGNAFArchive: bounds, helpers, actions.                             *)
(***************************************************************************)
\* most entries of an archive
MaxEntries == 2
\* largest size of a file entry
MaxEntrySize == 2

\* no file or directory at a path
Absent == -1

\* an entry of the archive: a directory, or a file of entry.size bytes
Entries ==
    [ isDirectory : {TRUE}, size : {0} ] \cup [ isDirectory : {FALSE}, size : 0..MaxEntrySize ]

Archives == UNION { [1..n -> Entries] : n \in 1..MaxEntries }

\* a tree on disk: per entry path the size found there (Absent: nothing)
NoTree(archive) == [ k \in 1..Len(archive) |-> Absent ]
ExtractedTree(archive) == [ k \in 1..Len(archive) |-> archive[k].size ]

\* what an earlier, interrupted run may have left under incomplete/
LeftOvers(archive) ==
    { t \in [1..Len(archive) -> Absent..MaxEntrySize] :
        \A k \in 1..Len(archive) : archive[k].isDirectory => t[k] \in {Absent, 0} }

\* stats !== undefined && stats.size === entry.size
SkipsExtract_AnyExisting(statSize, entry) == statSize # Absent
\* a file no larger than the entry taken for extracted
SkipsExtract_UpToSize(statSize, entry) == statSize # Absent /\ statSize <= entry.size
SkipsExtract(statSize, entry) == statSize # Absent /\ statSize = entry.size

UzInit ==
    /\ uzArchive \in Archives
    /\ uzIncomplete \in LeftOvers(uzArchive)
    /\ uzComplete \in { [ exists |-> FALSE, tree |-> NoTree(uzArchive) ],
                        [ exists |-> TRUE, tree |-> ExtractedTree(uzArchive) ] }
    /\ uzPc = "start"
    /\ uzEntry = 1
    /\ uzResult = "pending"
    /\ uzWritten = {}

\* directoryExists(complete_path): an extracted tree is there, nothing to do
SkipExtraction ==
    /\ uzPc = "start"
    /\ uzComplete.exists
    /\ uzPc' = "done"
    /\ uzResult' = "complete_path"
    /\ UNCHANGED << uzArchive, uzIncomplete, uzComplete, uzEntry >>
    /\ UNCHANGED uzWritten
    /\ UNCHANGED notUz

\* fs.mkdir(incomplete_path) and the start of the pipeline
MakeIncomplete ==
    /\ uzPc = "start"
    /\ ~uzComplete.exists
    /\ \E ok \in BOOLEAN :
          IF ok THEN uzPc' = "entries" /\ uzResult' = uzResult
                ELSE uzPc' = "failed" /\ uzResult' = "rejected"
    /\ UNCHANGED << uzArchive, uzIncomplete, uzComplete, uzEntry >>
    /\ UNCHANGED uzWritten
    /\ UNCHANGED notUz

\* transform of a directory entry: mkdir, then callback() or callback(error)
EntryDirectory ==
    /\ uzPc = "entries"
    /\ uzEntry <= Len(uzArchive)
    /\ uzArchive[uzEntry].isDirectory
    /\ \E ok \in BOOLEAN :
          IF ok THEN /\ uzIncomplete' = [ uzIncomplete EXCEPT ![uzEntry] = 0 ]
                     /\ uzEntry' = uzEntry + 1
                     /\ UNCHANGED << uzPc, uzResult >>
                ELSE /\ uzPc' = "failed"
                     /\ uzResult' = "rejected"
                     /\ UNCHANGED << uzIncomplete, uzEntry >>
    /\ UNCHANGED << uzArchive, uzComplete >>
    /\ UNCHANGED uzWritten
    /\ UNCHANGED notUz

\* transform of a file entry: mkdir of its directory, stat, then skip the
\* entry or open the write stream (which truncates the file)
EntryFile ==
    /\ uzPc = "entries"
    /\ uzEntry <= Len(uzArchive)
    /\ ~uzArchive[uzEntry].isDirectory
    /\ \E ok \in BOOLEAN :
          IF ~ok
          THEN \* mkdir failed, or stat failed other than with ENOENT
               /\ uzPc' = "failed"
               /\ uzResult' = "rejected"
               /\ UNCHANGED << uzIncomplete, uzEntry, uzWritten >>
          ELSE IF SkipsExtract(uzIncomplete[uzEntry], uzArchive[uzEntry])
          THEN /\ uzEntry' = uzEntry + 1
               /\ UNCHANGED << uzPc, uzResult, uzIncomplete, uzWritten >>
          ELSE /\ uzIncomplete' = [ uzIncomplete EXCEPT ![uzEntry] = 0 ]
               /\ uzWritten' = uzWritten \cup {uzEntry}
               /\ uzPc' = "extracting"
               /\ UNCHANGED << uzResult, uzEntry >>
    /\ UNCHANGED << uzArchive, uzComplete >>
    /\ UNCHANGED notUz

\* entry.pipe(writeStream): one more byte reaches the file
EntryData ==
    /\ uzPc = "extracting"
    /\ uzIncomplete[uzEntry] < uzArchive[uzEntry].size
    /\ uzIncomplete' = [ uzIncomplete EXCEPT ![uzEntry] = @ + 1 ]
    /\ UNCHANGED << uzArchive, uzComplete, uzPc, uzEntry, uzResult >>
    /\ UNCHANGED uzWritten
    /\ UNCHANGED notUz

\* the write stream's 'finish': callback()
EntryFinish ==
    /\ uzPc = "extracting"
    /\ uzIncomplete[uzEntry] = uzArchive[uzEntry].size
    /\ uzPc' = "entries"
    /\ uzEntry' = uzEntry + 1
    /\ UNCHANGED << uzArchive, uzIncomplete, uzComplete, uzResult >>
    /\ UNCHANGED uzWritten
    /\ UNCHANGED notUz

\* the write stream's 'error': callback(error), the pipeline's 'error', reject
EntryError ==
    /\ uzPc = "extracting"
    /\ uzPc' = "failed"
    /\ uzResult' = "rejected"
    /\ UNCHANGED << uzArchive, uzIncomplete, uzComplete, uzEntry >>
    /\ UNCHANGED uzWritten
    /\ UNCHANGED notUz

\* reading or parsing the archive fails: pipe() forwards no error to the
\* transform, which never finishes; the promise never settles, or the
\* unhandled 'error' event ends the process
UpstreamError ==
    /\ uzPc \in {"entries", "extracting"}
    /\ uzPc' \in {"stalled", "stopped"}
    /\ UNCHANGED << uzArchive, uzIncomplete, uzComplete, uzEntry, uzResult >>
    /\ UNCHANGED uzWritten
    /\ UNCHANGED notUz

\* the process stops
ProcessStops ==
    /\ uzPc \in {"start", "entries", "extracting", "rename", "stalled"}
    /\ uzPc' = "stopped"
    /\ UNCHANGED << uzArchive, uzIncomplete, uzComplete, uzEntry, uzResult >>
    /\ UNCHANGED uzWritten
    /\ UNCHANGED notUz

\* the transform's 'finish': every entry was handed to transform and called
\* back without error; resolve()
AllEntriesDone ==
    /\ uzPc = "entries"
    /\ uzEntry > Len(uzArchive)
    /\ uzPc' = "rename"
    /\ UNCHANGED << uzArchive, uzIncomplete, uzComplete, uzEntry, uzResult >>
    /\ UNCHANGED uzWritten
    /\ UNCHANGED notUz

\* fs.rename(incomplete_path, complete_path)
Rename ==
    /\ uzPc = "rename"
    /\ \E ok \in BOOLEAN :
          IF ok THEN /\ uzComplete' = [ exists |-> TRUE, tree |-> uzIncomplete ]
                     /\ uzIncomplete' = NoTree(uzArchive)
                     /\ uzPc' = "done"
                     /\ uzResult' = "complete_path"
                ELSE /\ uzPc' = "failed"
                     /\ uzResult' = "rejected"
                     /\ UNCHANGED << uzIncomplete, uzComplete >>
    /\ UNCHANGED << uzArchive, uzEntry >>
    /\ UNCHANGED uzWritten
    /\ UNCHANGED notUz

UzNext ==
    \/ SkipExtraction
    \/ MakeIncomplete
    \/ EntryDirectory
    \/ EntryFile
    \/ EntryData
    \/ EntryFinish
    \/ EntryError
    \/ UpstreamError
    \/ ProcessStops
    \/ AllEntriesDone
    \/ Rename

(***************************************************************************)
(* fetchGNAFPackageData: bounds, constants, helpers, actions.              *)
(* Time is counted in seconds: thirty days of milliseconds do not fit the  *)
(* model checker's integers, and only the order of ages matters.           *)
(***************************************************************************)
\* most calls of fetchGNAFPackageData in one run of the model
MaxCalls == 2
\* most versions of the manifest the upstream serves
MaxManifest == 2

\* one day and thirty days (conf)
ONE_DAY_MS == 86400
THIRTY_DAYS_MS == 2592000

\* ages of the cached entry explored, on both sides of each limit
CacheAges ==
    { 0, ONE_DAY_MS - 1, ONE_DAY_MS, ONE_DAY_MS + 1,
      THIRTY_DAYS_MS - 1, THIRTY_DAYS_MS, THIRTY_DAYS_MS + 1 }

\* time that passes between two calls
Advances == { 1, ONE_DAY_MS, THIRTY_DAYS_MS - ONE_DAY_MS, THIRTY_DAYS_MS }

\* the clock at the first call
FirstCallAt == THIRTY_DAYS_MS + 1

\* cache.get(packageUrl) === undefined
NoEntry == [ present |-> FALSE, body |-> 0, cachedAt |-> 0 ]
CacheEntry(body, cachedAt) == [ present |-> TRUE, body |-> body, cachedAt |-> cachedAt ]

NoPackageData ==
    [ kind |-> "none", body |-> 0, xCache |-> "", warning |-> FALSE, error |-> "" ]
Returned(body, xCache, warning) ==
    [ kind |-> "returned", body |-> body, xCache |-> xCache, warning |-> warning,
      error |-> "" ]
Thrown(error) ==
    [ kind |-> "thrown", body |-> 0, xCache |-> "", warning |-> FALSE, error |-> error ]

\* age <= ONE_DAY_MS
IsFresh_Exclusive(age) == age < ONE_DAY_MS
IsFresh(age) == age <= ONE_DAY_MS

\* age < THIRTY_DAYS_MS
IsUsableStale_Inclusive(age) == age <= THIRTY_DAYS_MS
IsUsableStale(age) == age < THIRTY_DAYS_MS

PkInit ==
    /\ pkNow = FirstCallAt
    /\ pkCache \in {NoEntry} \cup { CacheEntry(1, FirstCallAt - a) : a \in CacheAges }
    /\ pkPc = "call"
    /\ pkCached = NoEntry
    /\ pkAge = 0
    /\ pkFetch = "none"
    /\ pkResult = NoPackageData
    /\ pkCalls = 1

\* cache.get, the age of the entry, and the return of a fresh entry
ReadCache ==
    /\ pkPc = "call"
    /\ pkCached' = pkCache
    /\ pkFetch' = "none"
    /\ LET age == IF pkCache.present THEN pkNow - pkCache.cachedAt ELSE 0
       IN  /\ pkAge' = age
           /\ IF pkCache.present /\ IsFresh(age)
              THEN /\ pkPc' = "done"
                   /\ pkResult' = Returned(pkCache.body, "HIT", FALSE)
              ELSE /\ pkPc' = "fetch"
                   /\ pkResult' = NoPackageData
    /\ UNCHANGED << pkNow, pkCache, pkCalls >>
    /\ UNCHANGED notPk

\* gotClient.get succeeds and cache.set stores the response
FetchSucceeds ==
    /\ pkPc = "fetch"
    /\ \E body \in 1..MaxManifest, fromCache \in BOOLEAN :
          /\ pkCache' = CacheEntry(body, pkNow)
          /\ pkResult' = Returned(body, IF fromCache THEN "HIT" ELSE "MISS", FALSE)
    /\ pkFetch' = "ok"
    /\ pkPc' = "done"
    /\ UNCHANGED << pkNow, pkCached, pkAge, pkCalls >>
    /\ UNCHANGED notPk

\* the catch block: a stale entry younger than thirty days is returned
\* with a warning, otherwise the error is thrown on
CatchFetchError(error) ==
    /\ pkResult' = IF pkCached.present /\ IsUsableStale(pkAge)
                   THEN Returned(pkCached.body, "HIT", TRUE)
                   ELSE Thrown(error)
    /\ pkPc' = "done"

\* gotClient.get throws
FetchFails ==
    /\ pkPc = "fetch"
    /\ pkFetch' = "failed"
    /\ CatchFetchError("network")
    /\ UNCHANGED << pkNow, pkCache, pkCached, pkAge, pkCalls >>
    /\ UNCHANGED notPk

\* gotClient.get succeeds but cache.set throws inside the same try block;
\* the store may or may not have taken the entry before it failed
CacheSetFails ==
    /\ pkPc = "fetch"
    /\ pkFetch' = "ok"
    /\ CatchFetchError("cache")
    /\ \E body \in 1..MaxManifest : pkCache' \in {pkCache, CacheEntry(body, pkNow)}
    /\ UNCHANGED << pkNow, pkCached, pkAge, pkCalls >>
    /\ UNCHANGED notPk

\* time passes and fetchGNAFPackageData is called again
NextCall ==
    /\ pkPc = "done"
    /\ pkCalls < MaxCalls
    /\ \E d \in Advances : pkNow' = pkNow + d
    /\ pkCalls' = pkCalls + 1
    /\ pkPc' = "call"
    /\ UNCHANGED << pkCache, pkCached, pkAge, pkFetch, pkResult >>
    /\ UNCHANGED notPk

PkNext ==
    \/ ReadCache
    \/ FetchSucceeds
    \/ FetchFails
    \/ CacheSetFails
    \/ NextCall

(***************************************************************************)
(* getCoveredStates: bounds, helpers, actions.                             *)
(***************************************************************************)
\* most comma-separated codes of COVERED_STATES
MaxCodes == 2

\* the list isSupportedState accepts
SupportedStates == { "ACT", "NSW", "NT", "QLD", "SA", "TAS", "VIC", "WA" }

isSupportedState(state) == state \in SupportedStates

\* the pieces COVERED_STATES.split(",") may consist of: the codes of the
\* dataset, an unknown code, a lower-case code, a code after a blank, and
\* the empty piece of a doubled or trailing comma
StateTokens ==
    { "ACT", "NSW", "NT", "OT", "QLD", "SA", "TAS", "VIC", "WA",
      "XX", "nsw", " VIC", "" }

\* COVERED_STATES after split(","); << >> stands for the unset or empty variable
CoveredInputs == UNION { [1..n -> StateTokens] : n \in 0..MaxCodes }

\* states.some((state) => !isSupportedState(state)) ? [] : states
getCoveredStates(states) ==
    IF states = << >> THEN << >>
    ELSE IF \E k \in 1..Len(states) : ~isSupportedState(states[k]) THEN << >>
    ELSE states

CvInit ==
    /\ cvInput \in CoveredInputs
    /\ cvCovered = << >>
    /\ cvPc = "call"

GetCoveredStates ==
    /\ cvPc = "call"
    /\ cvCovered' = getCoveredStates(cvInput)
    /\ cvPc' = "done"
    /\ UNCHANGED cvInput
    /\ UNCHANGED notCv

CvNext ==
    \/ GetCoveredStates

(***************************************************************************)
(* calculateBackoff: bounds, inputs, actions.                              *)
(***************************************************************************)
\* highest retry number enumerated
MaxRetryNumber == 5

\* opts.retry: the defaults, and values that make the cap and the rounding act
RetryConfigs ==
    [ initialBackoff : {DefaultInitialBackoff, 1000, 3},
      maxBackoff : {DefaultMaxBackoff, 10000},
      backoffMultiplier : {DefaultBackoffMultiplier, 3} ]

DefaultRetryConfig ==
    [ initialBackoff |-> DefaultInitialBackoff,
      maxBackoff |-> DefaultMaxBackoff,
      backoffMultiplier |-> DefaultBackoffMultiplier ]

BoInit ==
    /\ boAttempt \in 0..MaxRetryNumber
    /\ boRetry \in RetryConfigs
    /\ boDelay = 0
    /\ boPc = "call"

\* streamDown's catch block computes the delay of retry number attempt
CalculateBackoff ==
    /\ boPc = "call"
    /\ \E random4 \in 0..3 :
          boDelay' = calculateBackoff(boAttempt, boRetry.initialBackoff,
                         boRetry.maxBackoff, boRetry.backoffMultiplier, random4)
    /\ boPc' = "done"
    /\ UNCHANGED << boAttempt, boRetry >>
    /\ UNCHANGED notBo

BoNext ==
    \/ CalculateBackoff

(***************************************************************************)
(* searchForAddress: the pagination parameters.                            *)
(***************************************************************************)
\* the limits and the default page size of the configuration
MAX_PAGE_NUMBER == 1000
MAX_PAGE_SIZE == 100
PAGE_SIZE == 8

Max(a, b) == IF a >= b THEN a ELSE b

\* the page numbers and page sizes a caller may pass
PagesGiven ==
    { -1, 0, 1, 2, MAX_PAGE_NUMBER - 1, MAX_PAGE_NUMBER, MAX_PAGE_NUMBER + 1 }
SizesGiven ==
    { -1, 0, 1, PAGE_SIZE, MAX_PAGE_SIZE - 1, MAX_PAGE_SIZE, MAX_PAGE_SIZE + 1 }

\* sePage while searchForAddress is not called
SeNotCalled == -1000

NoSearch == [ sent |-> FALSE, from |-> 0, size |-> 0, by |-> "" ]

\* Math.max(1, Math.min(page, MAX_PAGE_NUMBER)), and the same for the size
validatePaginationParams(page, size) ==
    [ validPage |-> Max(1, Min(page, MAX_PAGE_NUMBER)),
      validSize |-> Max(1, Min(size, MAX_PAGE_SIZE)) ]

\* p - 1 || 0: the right operand is taken when p - 1 is 0
OrZero(n) == IF n = 0 THEN 0 ELSE n

SeInit ==
    /\ sePage \in PagesGiven
    /\ seSize \in SizesGiven
    /\ seSearch = NoSearch

\* searchForAddress of service/index: from and size of the validated values
SearchForAddress ==
    /\ ~seSearch.sent
    /\ sePage # SeNotCalled
    /\ LET v == validatePaginationParams(sePage, seSize)
       IN  seSearch' = [ sent |-> TRUE,
                         from |-> (v.validPage - 1) * v.validSize,
                         size |-> v.validSize,
                         by |-> "service/index" ]
    /\ UNCHANGED << sePage, seSize >>
    /\ UNCHANGED notSe

\* searchForAddress of DefaultService: from and size of the values as given
SearchForAddressDefaultService ==
    /\ ~seSearch.sent
    /\ sePage # SeNotCalled
    /\ seSearch' = [ sent |-> TRUE,
                     from |-> OrZero(sePage - 1) * seSize,
                     size |-> seSize,
                     by |-> "DefaultService" ]
    /\ UNCHANGED << sePage, seSize >>
    /\ UNCHANGED notSe

SeNext ==
    \/ SearchForAddress
    \/ SearchForAddressDefaultService


(***************************************************************************)
(* propertyCodeToName: the nine authority-code lookups.                    *)
(***************************************************************************)
MaxAcCalls == 3

\* the nine tables of PropertyCodeToNameContext
AuthorityTables ==
    { "LEVEL_TYPE", "FLAT_TYPE", "STREET_TYPE", "STREET_CLASS",
      "LOCALITY_CLASS", "STREET_SUFFIX", "GEOCODE_RELIABILITY",
      "GEOCODE_TYPE", "GEOCODED_LEVEL_TYPE" }

\* the codes a row may carry; "ZZ" is in no table of any release
AuthorityCodes == { "A", "B", "ZZ" }

UndefinedName == "undefined"

\* the contexts a caller may pass: the tables of two releases, the second
\* one extending and renaming the first; one table lists a code twice
Releases == { 1, 2 }
ContextOf(release) ==
    [ t \in AuthorityTables |->
        IF release = 1
        THEN << [ CODE |-> "A", NAME |-> "FIRST" ] >>
        ELSE IF t = "STREET_SUFFIX"
        THEN << [ CODE |-> "A", NAME |-> "SECOND" ],
                [ CODE |-> "B", NAME |-> "BETA" ],
                [ CODE |-> "A", NAME |-> "AGAIN" ] >>
        ELSE << [ CODE |-> "A", NAME |-> "SECOND" ],
                [ CODE |-> "B", NAME |-> "BETA" ] >> ]

\* a cached map variable: undefined, or a Map of code and name pairs
UnsetMap == [ defined |-> FALSE, pairs |-> {} ]

\* new Map(), then map.set(entry.CODE, entry.NAME) for each entry in order:
\* a later entry of the same code replaces the earlier one
buildCodeMap(entries) ==
    [ defined |-> TRUE,
      pairs |-> { << entries[i].CODE, entries[i].NAME >> :
                    i \in { k \in DOMAIN entries :
                              \A j \in DOMAIN entries :
                                  entries[j].CODE = entries[k].CODE => j <= k } } ]

\* map.get(code)
MapGet(map, code) ==
    IF \E p \in map.pairs : p[1] = code
    THEN (CHOOSE p \in map.pairs : p[1] = code)[2]
    ELSE UndefinedName

\* entries.find(entry => entry.CODE === code), then found.NAME
FindName(entries, code) ==
    IF \E i \in DOMAIN entries : entries[i].CODE = code
    THEN entries[CHOOSE i \in DOMAIN entries :
                    /\ entries[i].CODE = code
                    /\ \A j \in DOMAIN entries : entries[j].CODE = code => i <= j].NAME
    ELSE UndefinedName

\* getLevelTypeMap and its eight siblings: build on first access only
getMap_Rebuilds(maps, table, context) == buildCodeMap(context[table])

getMap(maps, table, context) ==
    IF ~maps[table].defined THEN buildCodeMap(context[table]) ELSE maps[table]

\* the tail of every lookup: the name when there is one, else the
\* diagnostic and undefined
codeToName_Silent(name) == [ name |-> name, logged |-> FALSE ]

codeToName(name) ==
    IF name # UndefinedName
    THEN [ name |-> name, logged |-> FALSE ]
    ELSE [ name |-> UndefinedName, logged |-> TRUE ]

\* clearAuthorityCodeMaps: the nine assignments of undefined
clearAuthorityCodeMaps_KeepsLast ==
    [ t \in AuthorityTables |->
        IF t = "GEOCODED_LEVEL_TYPE" THEN acMaps[t] ELSE UnsetMap ]

clearAuthorityCodeMaps == [ t \in AuthorityTables |-> UnsetMap ]

NoAcCall ==
    [ by |-> "", table |-> "", code |-> "", release |-> 0,
      name |-> UndefinedName, logged |-> FALSE, consulted |-> {} ]

AcInit ==
    /\ acMaps = [ t \in AuthorityTables |-> UnsetMap ]
    /\ acCall = NoAcCall
    /\ acCalls = 0

\* a lookup of helpers/propertyCodeToName.js: through the cached map
CodeToNameCached ==
    /\ acCalls < MaxAcCalls
    /\ \E table \in AuthorityTables, code \in AuthorityCodes, release \in Releases :
         LET map == getMap(acMaps, table, ContextOf(release))
             r   == codeToName(MapGet(map, code))
         IN  /\ acMaps' = [ acMaps EXCEPT ![table] = map ]
             /\ acCall' = [ by |-> "propertyCodeToName.js", table |-> table,
                            code |-> code, release |-> release,
                            name |-> r.name, logged |-> r.logged,
                            consulted |-> { p[1] : p \in map.pairs } ]
    /\ acCalls' = acCalls + 1
    /\ UNCHANGED notAc

\* a lookup of helpers/propertyCodeToName.ts: a scan of the table passed
CodeToNameScan ==
    /\ acCalls < MaxAcCalls
    /\ \E table \in AuthorityTables, code \in AuthorityCodes, release \in Releases :
         LET entries == ContextOf(release)[table]
             r       == codeToName(FindName(entries, code))
         IN  acCall' = [ by |-> "propertyCodeToName.ts", table |-> table,
                         code |-> code, release |-> release,
                         name |-> r.name, logged |-> r.logged,
                         consulted |-> { entries[i].CODE : i \in DOMAIN entries } ]
    /\ acCalls' = acCalls + 1
    /\ UNCHANGED acMaps
    /\ UNCHANGED notAc

ClearAuthorityCodeMaps ==
    /\ acCalls < MaxAcCalls
    /\ acMaps' = clearAuthorityCodeMaps
    /\ acCall' = [ NoAcCall EXCEPT !.by = "clearAuthorityCodeMaps" ]
    /\ acCalls' = acCalls + 1
    /\ UNCHANGED notAc

AcNext ==
    \/ CodeToNameCached
    \/ CodeToNameScan
    \/ ClearAuthorityCodeMaps


(***************************************************************************)
(* mapToMla: the multi-line rendering of a structured address.  The        *)
(* implementation of the mapper is not part of the sources at hand; what   *)
(* follows is its declaration and the rendering contract.                  *)
(***************************************************************************)
\* the line budget of the rendering contract
MAX_MLA_LINES == 4

\* the most display lines the components of an address may ask for
MaxLinesNeeded == 5

\* a structured address, as far as mapToMla is concerned: the display lines
\* its non-empty groupings ask for, the line of locality, state and postcode
\* (line 1 here) always among them
StructuredAddresses == { s \in SUBSET (1..MaxLinesNeeded) : 1 \in s }

RECURSIVE LinesOf(_)
LinesOf(s) ==
    IF s = {} THEN << >>
    ELSE LET top == CHOOSE n \in s : \A k \in s : k <= n
         IN  Append(LinesOf(s \ {top}), top)

\* mapToMla: one line per non-empty grouping, raising when that is more
\* than four lines
mapToMla_NoLimit(s) == [ raised |-> FALSE, mla |-> LinesOf(s) ]

mapToMla(s) ==
    IF Cardinality(s) > MAX_MLA_LINES
    THEN [ raised |-> TRUE, mla |-> << >> ]
    ELSE [ raised |-> FALSE, mla |-> LinesOf(s) ]

NoRendering == [ raised |-> FALSE, mla |-> << >> ]

MlInit ==
    /\ mlPc = "row"
    /\ mlAddress \in StructuredAddresses
    /\ mlRendering = NoRendering
    /\ mlDocument = NoRendering

\* the mapper renders the address of the row
MapToMla ==
    /\ mlPc = "row"
    /\ mlRendering' = mapToMla(mlAddress)
    /\ mlPc' = IF mlRendering'.raised THEN "raised" ELSE "mapped"
    /\ UNCHANGED << mlAddress, mlDocument >>
    /\ UNCHANGED notMl

\* the mapper returns the document of the row, the rendering in it
MlDocument ==
    /\ mlPc = "mapped"
    /\ mlDocument' = mlRendering
    /\ mlPc' = "document"
    /\ UNCHANGED << mlAddress, mlRendering >>
    /\ UNCHANGED notMl

\* the next row
MlNextRow ==
    /\ mlPc \in { "raised", "document" }
    /\ mlPc' = "row"
    /\ mlAddress' \in StructuredAddresses
    /\ mlRendering' = NoRendering
    /\ UNCHANGED mlDocument
    /\ UNCHANGED notMl

MlNext ==
    \/ MapToMla
    \/ MlDocument
    \/ MlNextRow


(***************************************************************************)
(* emitProgress: the progress updates of one attemptDownload.              *)
(***************************************************************************)
DefaultProgressInterval == 100

\* Date.now() when the response arrives, and how long the clock runs on
ResponseTime == 1000
MaxElapsed == 120

\* opts.progressInterval ?? 100
ProgressIntervals == { DefaultProgressInterval, 50 }

\* the milliseconds that may pass between two events of the response
ElapsedGiven(interval) == { 0, 1, interval - 1, interval, interval + 1 }

\* emitProgress(force): the callback is called unless there is none, or
\* the call is not forced and less than progressInterval has passed since
\* the last update
Emits(force, now, lastEmitTime, interval, onProgress) ==
    /\ onProgress
    /\ ~(~force /\ now - lastEmitTime < interval)

PrInit ==
    /\ prOpts \in [ progressInterval : ProgressIntervals,
                    onProgress : BOOLEAN,
                    resumes : BOOLEAN ]
    /\ prPc = "response"
    /\ prNow = ResponseTime
    /\ prLastEmitTime = 0
    /\ prUpdates = << >>

\* what a call of emitProgress at the time now leaves behind
EmitProgress(force, now) ==
    IF Emits(force, now, prLastEmitTime, prOpts.progressInterval, prOpts.onProgress)
    THEN /\ prLastEmitTime' = now
         /\ prUpdates' = IF prUpdates = << >> THEN << now >>
                         ELSE << prUpdates[Len(prUpdates)], now >>
    ELSE UNCHANGED << prLastEmitTime, prUpdates >>

\* the response callback: the forced initial update of a resumed download
PrResponse ==
    /\ prPc = "response"
    /\ IF prOpts.resumes
       THEN EmitProgress(TRUE, prNow)
       ELSE UNCHANGED << prLastEmitTime, prUpdates >>
    /\ prPc' = "body"
    /\ UNCHANGED << prOpts, prNow >>
    /\ UNCHANGED notPr

\* 'data': a chunk is written, then emitProgress()
PrData ==
    /\ prPc = "body"
    /\ \E d \in ElapsedGiven(prOpts.progressInterval) :
         /\ prNow + d <= ResponseTime + MaxElapsed
         /\ prNow' = prNow + d
         /\ EmitProgress(FALSE, prNow + d)
    /\ UNCHANGED << prOpts, prPc >>
    /\ UNCHANGED notPr

\* 'end', then the callback of file.end: emitProgress(true)
PrEnd ==
    /\ prPc = "body"
    /\ \E d \in ElapsedGiven(prOpts.progressInterval) :
         /\ prNow + d <= ResponseTime + MaxElapsed
         /\ prNow' = prNow + d
         /\ EmitProgress(TRUE, prNow + d)
    /\ prPc' = "ended"
    /\ UNCHANGED prOpts
    /\ UNCHANGED notPr

PrNext ==
    \/ PrResponse
    \/ PrData
    \/ PrEnd


(***************************************************************************)
(* attemptDownload: the destination it resolves, and a redirect.           *)
(***************************************************************************)
\* most redirects followed in a row
MaxRedirects == 2
\* largest existingSize and retryAttempt a call is entered with
MaxExistingSize == 2

\* path.basename(uri.pathname) of the urls a request may be made to
UrlBasenames == { "gnaf.zip", "mirror.zip" }

\* opts.destinationPath: undefined, or a path
NoPath == ""
DestinationPaths == { NoPath, "incomplete/gnaf.zip" }

\* opts.destinationPath ?? path.basename(uri.pathname ?? opts.url)
resolvedDestination(destinationPath, urlBasename) ==
    IF destinationPath # NoPath THEN destinationPath ELSE urlBasename

\* attemptDownload(opts, existingSize, retryAttempt) up to the request: the
\* destination, the flags the file is opened with and the Range header
AttemptCall(destinationPath, urlBasename, existingSize, retryAttempt) ==
    [ destinationPath |-> destinationPath,
      url |-> urlBasename,
      resolvedDestination |-> resolvedDestination(destinationPath, urlBasename),
      request |-> BuildRequest(existingSize, retryAttempt, TRUE) ]

\* fs.createWriteStream(path, {flags}) on the files at hand
CreateWriteStream(files, path, flags) ==
    [ files EXCEPT ![path] = OpenFile(IF files[path] = Absent THEN 0 ELSE files[path],
                                      flags) ]

RdPaths == UrlBasenames \cup (DestinationPaths \ { NoPath })

\* streamDown has taken existingSize from the file at the destination it
\* resolved itself (0 also for a file it is not to resume)
RdInit ==
    /\ \E destinationPath \in DestinationPaths, urlBasename \in UrlBasenames,
          existingSize \in 0..MaxExistingSize, retryAttempt \in 0..MaxExistingSize,
          others \in [ RdPaths -> { Absent, 1 } ] :
          LET call == AttemptCall(destinationPath, urlBasename, existingSize,
                                  retryAttempt)
              disk == [ others EXCEPT ![call.resolvedDestination] =
                          IF existingSize > 0 THEN existingSize ELSE @ ]
          IN  /\ rdFirst = call
              /\ rdCall = call
              /\ rdFiles = CreateWriteStream(disk, call.resolvedDestination,
                                             call.request.flags)
    /\ rdHops = 0

\* a 3xx response with a Location header: close the file, unlink it unless
\* resuming, and call attemptDownload({...opts, url: location}, existingSize,
\* retryAttempt)
RdRedirect ==
    /\ rdHops < MaxRedirects
    /\ \E location \in UrlBasenames :
         LET unlinked == IF ~rdCall.request.isResuming
                         THEN [ rdFiles EXCEPT ![rdCall.resolvedDestination] = Absent ]
                         ELSE rdFiles
             call == AttemptCall(rdCall.destinationPath, location,
                                 rdCall.request.existingSize,
                                 rdCall.request.retryAttempt)
         IN  /\ rdCall' = call
             /\ rdFiles' = CreateWriteStream(unlinked, call.resolvedDestination,
                                             call.request.flags)
    /\ rdHops' = rdHops + 1
    /\ UNCHANGED rdFirst
    /\ UNCHANGED notRd

\* any other response: the redirects end here
RdOther ==
    /\ rdHops < MaxRedirects + 1
    /\ rdHops' = MaxRedirects + 1
    /\ UNCHANGED << rdFirst, rdCall, rdFiles >>
    /\ UNCHANGED notRd

RdNext ==
    \/ RdRedirect
    \/ RdOther


(***************************************************************************)
(* fetchGNAFArchive: the archive in incomplete/ and at the completed path. *)
(***************************************************************************)
\* the size of the archive, dataResource.size
ArchiveSize == 2
\* most entries of the fetch step explored
MaxFetchRuns == 3

\* the path streamDown is given
DownloadPath_Completed == "complete"

DownloadPath == "incomplete"

\* what the files hold when the fetch step is first entered: nothing, a
\* partial download, an archive at the completed path
FeFilesGiven ==
    [ incomplete : { Absent } \cup (0..ArchiveSize), complete : { Absent, ArchiveSize } ]

FeInit ==
    /\ feFiles \in FeFilesGiven
    /\ feEntry = feFiles
    /\ fePc = "mkdir"
    /\ feDownload = "none"
    /\ feRuns = 1

\* fs.mkdir(incomplete_path, {recursive: true}): done, or the error rejects
FeMkdir ==
    /\ fePc = "mkdir"
    /\ fePc' \in { "access", "thrown" }
    /\ UNCHANGED << feFiles, feEntry, feDownload, feRuns >>
    /\ UNCHANGED notFe

\* fs.access(destination, R_OK): return the destination, or go and download
FeAccess ==
    /\ fePc = "access"
    /\ IF feFiles.complete # Absent
       THEN fePc' = "returned" /\ UNCHANGED feDownload
       ELSE fePc' = "download" /\ feDownload' = "running"
    /\ UNCHANGED << feFiles, feEntry, feRuns >>
    /\ UNCHANGED notFe

\* streamDown at work: bytes reach the file it was given
FeDownloadWrites ==
    /\ fePc = "download"
    /\ \E size \in 0..ArchiveSize :
          feFiles' = [ feFiles EXCEPT ![DownloadPath] = size ]
    /\ UNCHANGED << feEntry, fePc, feDownload, feRuns >>
    /\ UNCHANGED notFe

\* streamDown resolves: the whole archive is in the file it was given
FeDownloadResolves ==
    /\ fePc = "download"
    /\ feFiles' = [ feFiles EXCEPT ![DownloadPath] = ArchiveSize ]
    /\ feDownload' = "resolved"
    /\ fePc' = "rename"
    /\ UNCHANGED << feEntry, feRuns >>
    /\ UNCHANGED notFe

\* streamDown rejects: the error is logged and thrown
FeDownloadRejects ==
    /\ fePc = "download"
    /\ feDownload' = "rejected"
    /\ fePc' = "thrown"
    /\ UNCHANGED << feFiles, feEntry, feRuns >>
    /\ UNCHANGED notFe

\* fsp.rename(incomplete, destination): done, or the error is thrown
FeRename ==
    /\ fePc = "rename"
    /\ \/ /\ feFiles' = [ incomplete |-> Absent, complete |-> feFiles.incomplete ]
          /\ fePc' = "returned"
       \/ /\ fePc' = "thrown"
          /\ UNCHANGED feFiles
    /\ UNCHANGED << feEntry, feDownload, feRuns >>
    /\ UNCHANGED notFe

\* the process stops while the download runs
FeInterrupted ==
    /\ fePc = "download"
    /\ feDownload' = "interrupted"
    /\ fePc' = "stopped"
    /\ UNCHANGED << feFiles, feEntry, feRuns >>
    /\ UNCHANGED notFe

\* the fetch step is entered again
FeReenter ==
    /\ fePc \in { "returned", "thrown", "stopped" }
    /\ feRuns < MaxFetchRuns
    /\ feRuns' = feRuns + 1
    /\ feEntry' = feFiles
    /\ feDownload' = "none"
    /\ fePc' = "mkdir"
    /\ UNCHANGED feFiles
    /\ UNCHANGED notFe

FeNext ==
    \/ FeMkdir
    \/ FeAccess
    \/ FeDownloadWrites
    \/ FeDownloadResolves
    \/ FeDownloadRejects
    \/ FeRename
    \/ FeInterrupted
    \/ FeReenter


(***************************************************************************)
(* The documents of the address index: who writes them and who reads them. *)
(***************************************************************************)
\* the ids of the addresses, /addresses/{pid}
IxIds == { "GA1", "GA2" }

\* the structured addresses a row can carry
IxStructured == { "structuredA", "structuredB" }

\* a field a document does not have
IxUndefined == "undefined"

NoSource == [ structured |-> "", structurted |-> "" ]

NoGot == [ id |-> "", statusCode |-> 0, structured |-> "" ]

\* the body of a document the loader submits: {sla, ssla, structured, confidence}
LoaderBody(structured) ==
    [ structured |-> structured, structurted |-> IxUndefined ]

\* the body of a document setAddresses of DefaultService.ts submits:
\* {sla, ssla, structurted, confidence}
setAddressesBody(rest) ==
    [ structured |-> IxUndefined, structurted |-> rest ]

\* the body of a document setAddresses of dist/service/index.js submits:
\* {sla, ssla, structured, confidence}
setAddressesDistBody(rest) ==
    [ structured |-> rest, structurted |-> IxUndefined ]

\* the addresses setAddresses can be given: for each id, a row or none
IxRowsGiven == [ IxIds -> IxStructured \cup { IxUndefined } ]

\* the json of getAddress: {...body._source.structured, sla}, or the
\* 404 of an id the index does not hold
getAddressJson(source, id) ==
    IF source[id] = NoSource
    THEN [ id |-> id, statusCode |-> 404, structured |-> IxUndefined ]
    ELSE [ id |-> id, statusCode |-> 200, structured |-> source[id].structured ]

IxInit ==
    /\ ixSource = [ id \in IxIds |-> NoSource ]
    /\ ixGot = NoGot

\* loadGNAFAddress: the bulk request indexes the document of a row
IxLoadGNAFAddress ==
    /\ \E id \in IxIds, structured \in IxStructured :
          ixSource' = [ ixSource EXCEPT ![id] = LoaderBody(structured) ]
    /\ UNCHANGED ixGot
    /\ UNCHANGED notIx

\* setAddresses of DefaultService.ts: clearAddresses, then one bulk request
\* indexing every address given
IxSetAddresses ==
    /\ \E addr \in IxRowsGiven :
          ixSource' = [ id \in IxIds |->
                          IF addr[id] = IxUndefined THEN NoSource
                          ELSE setAddressesBody(addr[id]) ]
    /\ UNCHANGED ixGot
    /\ UNCHANGED notIx

\* setAddresses of dist/service/index.js
IxSetAddressesDist ==
    /\ \E addr \in IxRowsGiven :
          ixSource' = [ id \in IxIds |->
                          IF addr[id] = IxUndefined THEN NoSource
                          ELSE setAddressesDistBody(addr[id]) ]
    /\ UNCHANGED ixGot
    /\ UNCHANGED notIx

IxGetAddress ==
    /\ \E id \in IxIds : ixGot' = getAddressJson(ixSource, id)
    /\ UNCHANGED ixSource
    /\ UNCHANGED notIx

IxNext ==
    \/ IxLoadGNAFAddress
    \/ IxSetAddresses
    \/ IxSetAddressesDist
    \/ IxGetAddress


(***************************************************************************)
(* The attemptDownload calls of one streamDown and who writes the file.    *)
(* A call whose promise has settled keeps its request until the request    *)
(* is destroyed or answered.                                               *)
(***************************************************************************)
\* most attemptDownload calls of one streamDown explored
MaxAttemptCalls == 3
\* most bytes in the destination file explored
MaxBytes == 2

\* an attemptDownload call: createWriteStream and get(); `awaited` says
\* that its resolve and reject still reach the retry loop
NewCall(by, existingSize, awaited) ==
    [ by |-> by, existingSize |-> existingSize, pc |-> "request",
      aborted |-> FALSE, reqAlive |-> TRUE, fileOpen |-> TRUE,
      awaited |-> awaited ]

\* createWriteStream(flags: isResuming ? "a" : "w") on the bytes of the file
OpenedFile(file, existingSize) == IF existingSize > 0 THEN file ELSE << >>

\* abortWithError: nothing when already aborted; else the timers are
\* cleared, the file is closed and the promise rejected
abortWithError(call) ==
    IF call.aborted THEN call
    ELSE [ call EXCEPT !.aborted = TRUE, !.fileOpen = FALSE, !.awaited = FALSE ]

\* the catch block of the retry loop, when the call it awaits rejects:
\* it sleeps and retries, or gives up
LoopAfterReject(call, loop) ==
    IF call.awaited THEN { "sleeping", "rejected" } ELSE { loop }

WrInit ==
    /\ wrOpts \in [ enableResume : BOOLEAN ]
    /\ \E onDisk \in { << >>, << 0 >> } :   \* 0: a byte of an earlier run
          LET existingSize == IF wrOpts.enableResume THEN Len(onDisk) ELSE 0
          IN  /\ wrCalls = << NewCall("loop", existingSize, TRUE) >>
              /\ wrFile = OpenedFile(onDisk, existingSize)
    /\ wrLoop = "awaiting"

\* the connect timer fires: abortWithError, and the request stays in flight
WrConnectTimeout ==
    \E i \in DOMAIN wrCalls :
        /\ wrCalls[i].pc = "request"
        /\ ~wrCalls[i].aborted
        /\ wrCalls' = [ wrCalls EXCEPT ![i] = abortWithError(@) ]
        /\ wrLoop' \in LoopAfterReject(wrCalls[i], wrLoop)
        /\ UNCHANGED << wrFile, wrOpts >>
        /\ UNCHANGED notWr

\* the socket-inactivity timer fires: abortWithError, req.destroy()
WrSocketTimeout ==
    \E i \in DOMAIN wrCalls :
        /\ wrCalls[i].pc = "streaming"
        /\ wrCalls[i].reqAlive
        /\ ~wrCalls[i].aborted
        /\ wrCalls' = [ wrCalls EXCEPT ![i] = [ abortWithError(@) EXCEPT !.reqAlive = FALSE ] ]
        /\ wrLoop' \in LoopAfterReject(wrCalls[i], wrLoop)
        /\ UNCHANGED << wrFile, wrOpts >>
        /\ UNCHANGED notWr

\* the request ends without an answer: its 'timeout' (req.destroy()), its
\* 'error', the 'error' of the response or a premature 'close'; each
\* calls abortWithError
WrRequestEnds ==
    \E i \in DOMAIN wrCalls :
        /\ wrCalls[i].reqAlive
        /\ wrCalls' = [ wrCalls EXCEPT ![i] = [ abortWithError(@) EXCEPT !.reqAlive = FALSE ] ]
        /\ wrLoop' \in LoopAfterReject(wrCalls[i], wrLoop)
        /\ UNCHANGED << wrFile, wrOpts >>
        /\ UNCHANGED notWr

\* the response callback with a 4xx or 5xx status: cleanup, file.close(),
\* reject; a 416 deletes the file too
WrErrorStatus ==
    \E i \in DOMAIN wrCalls :
        /\ wrCalls[i].pc = "request"
        /\ wrCalls[i].reqAlive
        /\ wrCalls' = [ wrCalls EXCEPT ![i] =
                          [ @ EXCEPT !.pc = "closed", !.reqAlive = FALSE,
                                     !.fileOpen = FALSE, !.awaited = FALSE ] ]
        /\ wrLoop' \in LoopAfterReject(wrCalls[i], wrLoop)
        /\ \E status \in { 416, 503 } :
              wrFile' = IF status = 416 THEN << >> ELSE wrFile
        /\ UNCHANGED wrOpts
        /\ UNCHANGED notWr

\* the response callback with a 3xx and a Location, or with a 200 to a
\* request that asked for a range: cleanup, file.close(), the file is
\* deleted (a redirect keeps it when resuming), and attemptDownload is
\* called again, settling this call's promise with its outcome
WrFollow ==
    \E i \in DOMAIN wrCalls :
        /\ wrCalls[i].pc = "request"
        /\ wrCalls[i].reqAlive
        /\ Len(wrCalls) < MaxAttemptCalls
        /\ \E kind \in { "redirect", "rangeIgnored" } :
              /\ kind = "rangeIgnored" => wrCalls[i].existingSize > 0
              /\ LET existingSize == IF kind = "redirect" THEN wrCalls[i].existingSize ELSE 0
                 IN  /\ wrCalls' = Append(
                            [ wrCalls EXCEPT ![i] =
                                [ @ EXCEPT !.pc = "closed", !.reqAlive = FALSE,
                                           !.fileOpen = FALSE, !.awaited = FALSE ] ],
                            NewCall(kind, existingSize, wrCalls[i].awaited))
                     /\ wrFile' = OpenedFile(wrFile, existingSize)
        /\ UNCHANGED << wrLoop, wrOpts >>
        /\ UNCHANGED notWr

\* the response callback with a 2xx: the 'data', 'end', 'error' and 'close'
\* handlers are set and the socket timer started
WrResponse ==
    \E i \in DOMAIN wrCalls :
        /\ wrCalls[i].pc = "request"
        /\ wrCalls[i].reqAlive
        /\ wrCalls' = [ wrCalls EXCEPT ![i].pc = "streaming" ]
        /\ UNCHANGED << wrFile, wrLoop, wrOpts >>
        /\ UNCHANGED notWr

\* 'data': an overflow closes and deletes the file, aborts and destroys
\* the request; else file.write(chunk), which adds no byte once the file
\* is closed
WrData ==
    \E i \in DOMAIN wrCalls :
        /\ wrCalls[i].pc = "streaming"
        /\ wrCalls[i].reqAlive
        /\ \E overflow \in BOOLEAN :
              IF overflow
              THEN /\ wrCalls' = [ wrCalls EXCEPT ![i] =
                                     [ abortWithError(@) EXCEPT !.reqAlive = FALSE,
                                                                !.fileOpen = FALSE ] ]
                   /\ wrFile' = << >>
                   /\ wrLoop' \in LoopAfterReject(
                                     [ wrCalls[i] EXCEPT !.awaited = @ /\ ~wrCalls[i].aborted ],
                                     wrLoop)
              ELSE /\ Len(wrFile) < MaxBytes
                   /\ wrFile' = IF wrCalls[i].fileOpen THEN Append(wrFile, i) ELSE wrFile
                   /\ UNCHANGED << wrCalls, wrLoop >>
        /\ UNCHANGED wrOpts
        /\ UNCHANGED notWr

\* 'end': cleanup, file.end(), and its callback resolves, or deletes the
\* file and rejects with SIZE_MISMATCH
WrEnd ==
    \E i \in DOMAIN wrCalls :
        /\ wrCalls[i].pc = "streaming"
        /\ wrCalls[i].reqAlive
        /\ wrCalls' = [ wrCalls EXCEPT ![i] =
                          [ @ EXCEPT !.pc = "closed", !.reqAlive = FALSE,
                                     !.fileOpen = FALSE, !.awaited = FALSE ] ]
        /\ \E sizeMatches \in BOOLEAN :
              IF sizeMatches
              THEN /\ wrLoop' = IF wrCalls[i].awaited THEN "resolved" ELSE wrLoop
                   /\ UNCHANGED wrFile
              ELSE /\ wrLoop' \in LoopAfterReject(wrCalls[i], wrLoop)
                   /\ wrFile' = << >>
        /\ UNCHANGED wrOpts
        /\ UNCHANGED notWr

\* the sleep of the retry loop ends: validatePartialFile, attemptDownload
WrRetry ==
    /\ wrLoop = "sleeping"
    /\ Len(wrCalls) < MaxAttemptCalls
    /\ LET existingSize == IF wrOpts.enableResume THEN Len(wrFile) ELSE 0
       IN  /\ wrCalls' = Append(wrCalls, NewCall("loop", existingSize, TRUE))
           /\ wrFile' = OpenedFile(wrFile, existingSize)
    /\ wrLoop' = "awaiting"
    /\ UNCHANGED wrOpts
    /\ UNCHANGED notWr

WrNext ==
    \/ WrConnectTimeout
    \/ WrSocketTimeout
    \/ WrRequestEnds
    \/ WrErrorStatus
    \/ WrFollow
    \/ WrResponse
    \/ WrData
    \/ WrEnd
    \/ WrRetry

(***************************************************************************)
(* The specifications: one per component, the others idle.                 *)
(***************************************************************************)
DlIdle ==
    /\ opts = [ expectedSize |-> 0, maxRetries |-> 0, enableResume |-> FALSE ]
    /\ fileSize = 0
    /\ pc = "idle"
    /\ attempt = 0
    /\ restartCount = 0
    /\ validation = NoValidation
    /\ req = NoRequest
    /\ resp = NoResponse
    /\ lastError = NoError
    /\ delayMs = 0
    /\ result = NoResult
    /\ attemptsStarted = 0

LdIdle ==
    /\ csv = [ chunks |-> << >>, bad |-> 0 ]
    /\ ldOpts = [ refresh |-> FALSE, initialBackoff |-> DefaultIndexBackoff ]
    /\ ldStatus = "idle"
    /\ paused = FALSE
    /\ nextChunk = 1
    /\ actualCount = 0
    /\ requests = {}
    /\ lastBulk = NoBulk
    /\ esIndex = {}
    /\ lookup = NoLookup
    /\ batches = << >>

UzIdle ==
    /\ uzArchive = << >>
    /\ uzIncomplete = << >>
    /\ uzComplete = [ exists |-> FALSE, tree |-> << >> ]
    /\ uzPc = "idle"
    /\ uzEntry = 1
    /\ uzResult = "pending"
    /\ uzWritten = {}

PkIdle ==
    /\ pkNow = 0
    /\ pkCache = NoEntry
    /\ pkPc = "idle"
    /\ pkCached = NoEntry
    /\ pkAge = 0
    /\ pkFetch = "none"
    /\ pkResult = NoPackageData
    /\ pkCalls = 0

CvIdle ==
    /\ cvInput = << >>
    /\ cvCovered = << >>
    /\ cvPc = "idle"

BoIdle ==
    /\ boAttempt = 0
    /\ boRetry = DefaultRetryConfig
    /\ boDelay = 0
    /\ boPc = "idle"

SeIdle ==
    /\ sePage = SeNotCalled
    /\ seSize = PAGE_SIZE
    /\ seSearch = NoSearch

AcIdle ==
    /\ acMaps = [ t \in AuthorityTables |-> UnsetMap ]
    /\ acCall = NoAcCall
    /\ acCalls = MaxAcCalls

MlIdle ==
    /\ mlPc = "idle"
    /\ mlAddress = { 1 }
    /\ mlRendering = NoRendering
    /\ mlDocument = NoRendering

PrIdle ==
    /\ prOpts = [ progressInterval |-> DefaultProgressInterval,
                  onProgress |-> FALSE, resumes |-> FALSE ]
    /\ prPc = "idle"
    /\ prNow = ResponseTime
    /\ prLastEmitTime = 0
    /\ prUpdates = << >>

RdIdle ==
    /\ rdFirst = AttemptCall(NoPath, "gnaf.zip", 0, 0)
    /\ rdCall = rdFirst
    /\ rdFiles = [ p \in RdPaths |-> Absent ]
    /\ rdHops = MaxRedirects + 1

FeIdle ==
    /\ feFiles = [ incomplete |-> Absent, complete |-> Absent ]
    /\ feEntry = feFiles
    /\ fePc = "idle"
    /\ feDownload = "none"
    /\ feRuns = MaxFetchRuns

IxIdle ==
    /\ ixSource = [ id \in IxIds |-> NoSource ]
    /\ ixGot = NoGot

WrIdle ==
    /\ wrCalls = << >>
    /\ wrFile = << >>
    /\ wrLoop = "idle"
    /\ wrOpts = [ enableResume |-> FALSE ]

Init == DlInit /\ LdIdle /\ UzIdle /\ PkIdle /\ CvIdle /\ BoIdle /\ SeIdle /\ AcIdle /\ MlIdle /\ PrIdle /\ RdIdle /\ FeIdle /\ IxIdle /\ WrIdle

SpecDownload == Init /\ [][DlNext]_vars

\* every request is answered, fails or times out; every sleep ends; the
\* event loop runs every handler that is due
SpecDownloadFair == Init /\ [][DlNext]_vars /\ WF_vars(DlNext)

LoadInit == DlIdle /\ LdInit /\ UzIdle /\ PkIdle /\ CvIdle /\ BoIdle /\ SeIdle /\ AcIdle /\ MlIdle /\ PrIdle /\ RdIdle /\ FeIdle /\ IxIdle /\ WrIdle

SpecLoad == LoadInit /\ [][LdNext]_vars

UnzipInit == DlIdle /\ LdIdle /\ UzInit /\ PkIdle /\ CvIdle /\ BoIdle /\ SeIdle /\ AcIdle /\ MlIdle /\ PrIdle /\ RdIdle /\ FeIdle /\ IxIdle /\ WrIdle

SpecUnzip == UnzipInit /\ [][UzNext]_vars

PackageInit == DlIdle /\ LdIdle /\ UzIdle /\ PkInit /\ CvIdle /\ BoIdle /\ SeIdle /\ AcIdle /\ MlIdle /\ PrIdle /\ RdIdle /\ FeIdle /\ IxIdle /\ WrIdle

SpecPackage == PackageInit /\ [][PkNext]_vars

CoveredInit == DlIdle /\ LdIdle /\ UzIdle /\ PkIdle /\ CvInit /\ BoIdle /\ SeIdle /\ AcIdle /\ MlIdle /\ PrIdle /\ RdIdle /\ FeIdle /\ IxIdle /\ WrIdle

SpecCovered == CoveredInit /\ [][CvNext]_vars

BackoffInit == DlIdle /\ LdIdle /\ UzIdle /\ PkIdle /\ CvIdle /\ BoInit /\ SeIdle /\ AcIdle /\ MlIdle /\ PrIdle /\ RdIdle /\ FeIdle /\ IxIdle /\ WrIdle

SpecBackoff == BackoffInit /\ [][BoNext]_vars

SearchInit == DlIdle /\ LdIdle /\ UzIdle /\ PkIdle /\ CvIdle /\ BoIdle /\ SeInit /\ AcIdle /\ MlIdle /\ PrIdle /\ RdIdle /\ FeIdle /\ IxIdle /\ WrIdle

SpecSearch == SearchInit /\ [][SeNext]_vars

AuthorityInit == DlIdle /\ LdIdle /\ UzIdle /\ PkIdle /\ CvIdle /\ BoIdle /\ SeIdle /\ AcInit /\ MlIdle /\ PrIdle /\ RdIdle /\ FeIdle /\ IxIdle /\ WrIdle

SpecAuthority == AuthorityInit /\ [][AcNext]_vars

MlaInit == DlIdle /\ LdIdle /\ UzIdle /\ PkIdle /\ CvIdle /\ BoIdle /\ SeIdle /\ AcIdle /\ MlInit /\ PrIdle /\ RdIdle /\ FeIdle /\ IxIdle /\ WrIdle

SpecMla == MlaInit /\ [][MlNext]_vars

ProgressInit == DlIdle /\ LdIdle /\ UzIdle /\ PkIdle /\ CvIdle /\ BoIdle /\ SeIdle /\ AcIdle /\ MlIdle /\ PrInit /\ RdIdle /\ FeIdle /\ IxIdle /\ WrIdle

SpecProgress == ProgressInit /\ [][PrNext]_vars

RedirectInit == DlIdle /\ LdIdle /\ UzIdle /\ PkIdle /\ CvIdle /\ BoIdle /\ SeIdle /\ AcIdle /\ MlIdle /\ PrIdle /\ RdInit /\ FeIdle /\ IxIdle /\ WrIdle

SpecRedirect == RedirectInit /\ [][RdNext]_vars

FetchInit == DlIdle /\ LdIdle /\ UzIdle /\ PkIdle /\ CvIdle /\ BoIdle /\ SeIdle /\ AcIdle /\ MlIdle /\ PrIdle /\ RdIdle /\ FeInit /\ IxIdle /\ WrIdle

SpecFetch == FetchInit /\ [][FeNext]_vars

IndexInit == DlIdle /\ LdIdle /\ UzIdle /\ PkIdle /\ CvIdle /\ BoIdle /\ SeIdle /\ AcIdle /\ MlIdle /\ PrIdle /\ RdIdle /\ FeIdle /\ IxInit /\ WrIdle

SpecIndex == IndexInit /\ [][IxNext]_vars

WritersInit == DlIdle /\ LdIdle /\ UzIdle /\ PkIdle /\ CvIdle /\ BoIdle /\ SeIdle /\ AcIdle /\ MlIdle /\ PrIdle /\ RdIdle /\ FeIdle /\ IxIdle /\ WrInit

SpecWriters == WritersInit /\ [][WrNext]_vars

(***************************************************************************)
(* streamDown: the properties.                                             *)
(***************************************************************************)

\* C1: before every attempt with resume enabled, the size s found on disk
\* and the expected size e decide the request: s = 0 gives a fresh download
\* with no Range header; e known and 0 < s < e gives Range: bytes=s- and a
\* file opened for append; e known and s >= e gives a deleted file and a
\* fresh download; e unknown and s > 0 gives Range: bytes=s-.
C1_ResumeDecision ==
    (pc = "request" /\ req.enableResume) =>
        LET s == validation.sizeBefore
            e == opts.expectedSize
        IN  /\ s = 0 =>
                 /\ req.range = NoRange
                 /\ req.flags = "w"
                 /\ ~validation.wasDeleted
            /\ (e > 0 /\ 0 < s /\ s < e) =>
                 /\ req.range = s
                 /\ req.flags = "a"
                 /\ ~validation.wasDeleted
                 /\ fileSize = s
            /\ (e > 0 /\ s >= e) =>
                 /\ validation.wasDeleted
                 /\ req.range = NoRange
                 /\ req.flags = "w"
                 /\ fileSize = 0
            /\ (e <= 0 /\ s > 0) =>
                 /\ req.range = s
                 /\ req.flags = "a"
                 /\ ~validation.wasDeleted
                 /\ fileSize = s

\* a retry that resumes a partial file left by a failed attempt
C1_Witness ==
    /\ pc = "request"
    /\ req.enableResume
    /\ attempt >= 1
    /\ opts.expectedSize > 0
    /\ validation.sizeBefore > 0
    /\ validation.sizeBefore < opts.expectedSize
    /\ req.range = validation.sizeBefore

\* C2 (as claimed): at end-of-stream of an attempt with a known total the
\* fetch succeeds only if the size on disk equals the total; otherwise the
\* file is deleted and the attempt fails with the code SIZE_MISMATCH.
C2_EndOfStreamVerifiesSize ==
    [][ (End /\ resp.totalBytes > 0) =>
            /\ pc' = "done" => fileSize = resp.totalBytes
            /\ fileSize # resp.totalBytes =>
                 /\ fileSize' = 0
                 /\ pc' # "done"
                 /\ lastError'.code = "SIZE_MISMATCH" ]_vars

\* C5 (as claimed): a response with status 408, 429, 500, 502, 503 or 504
\* makes streamDown fail only when no retry is left (attempts = maxRetries + 1).
C5_RetryableStatusIsRetried ==
    (result.kind = "rejected"
        /\ result.code \in { "HTTP_" \o ToString(st) : st \in RETRYABLE_HTTP_STATUS_CODES })
    => result.attempts = opts.maxRetries + 1

\* C6: a 416 deletes the partial file and restarts from byte 0 after a
\* fixed sleep, without consuming a retry; at most maxRestarts (3) restarts
\* happen and the next 416 rejects with the non-retryable CORRUPT_FILE_LOOP.
C6_RestartOn416 ==
    /\ restartCount <= maxRestarts + 1
    /\ restartCount = maxRestarts + 1 =>
         /\ pc = "failed"
         /\ result.code = "CORRUPT_FILE_LOOP"
    /\ result.code = "CORRUPT_FILE_LOOP" =>
         /\ restartCount = maxRestarts + 1
         /\ result.kind = "rejected"
         /\ ~result.isRetryable
         /\ fileSize = 0
    /\ (pc = "sleep" /\ lastError.requiresRestart) =>
         /\ fileSize = 0
         /\ delayMs = RestartSleepMs
    /\ (pc = "request" /\ lastError.requiresRestart) =>
         /\ req.range = NoRange
         /\ fileSize = 0
    /\ pc \in {"request", "streaming"} =>
         /\ attemptsStarted = attempt + restartCount + 1
         /\ req.retryAttempt = attempt

\* the 4th 416 of one call
C6_Witness ==
    /\ pc = "failed"
    /\ result.code = "CORRUPT_FILE_LOOP"
    /\ restartCount = maxRestarts + 1
    /\ attemptsStarted = maxRestarts + 1 + result.attempts - 1

ChunkBatch(i) == BuildIndexingBody(ChunkRows(csv, i))

\* C3: the parser is paused from the start of a chunk callback until that
\* chunk's bulk submission has completed: at most one chunk is in flight and
\* at most one bulk request outstanding, no chunk is read while a submission
\* is pending, and only the return of that submission resumes the parser.
C3_OneChunkInFlight ==
    [][ /\ Cardinality(requests') <= 1
        /\ requests' # {} => paused'
        /\ nextChunk' # nextChunk =>
             /\ requests = {}
             /\ requests' # {} => \A r \in requests' : r.chunk = nextChunk
        /\ (paused /\ ~paused') =>
             /\ requests # {}
             /\ requests' = {}
             /\ \A r \in requests : lastBulk'.chunk = r.chunk
             /\ ~lastBulk'.response.thrown ]_vars

\* a second chunk waits unread while the first chunk's batch is retried
C3_Witness ==
    /\ paused
    /\ nextChunk = 2
    /\ nextChunk <= Len(csv.chunks)
    /\ csv.chunks[2] > 0
    /\ \E r \in requests : r.chunk = 1 /\ r.at = "backoff" /\ r.count >= 1

C8_MappingErrorSkipsRowOnly ==
    [][ (nextChunk' # nextChunk /\ FirstRaise(csv, ChunkRows(csv, nextChunk)) > 0) =>
            LET rows == ChunkRows(csv, nextChunk)
                others == { DocId(rows[k]) : k \in { j \in 1..Len(rows) : rows[j] # csv.bad } }
            IN  /\ ldStatus' = "parsing"
                /\ actualCount' >= actualCount + Len(rows) - 1
                /\ others # {} => \E r \in requests' : BodyIds(r.body) = others
                /\ others = {} => ~paused' ]_vars

(***************************************************************************)
(* unzipGNAFArchive: the properties.                                       *)
(***************************************************************************)
\* C9: the completed path comes into being only by the rename of
\* incomplete/ after every entry was processed without error, and then holds
\* every entry in full; a run that fails, stalls or stops leaves no
\* completed path behind.
C9_CompleteOnlyByRename ==
    /\ [](uzComplete.exists => uzComplete.tree = ExtractedTree(uzArchive))
    /\ [](uzPc \in {"failed", "stalled", "extracting", "rename"} => ~uzComplete.exists)
    /\ [][ uzComplete' # uzComplete =>
             /\ ~uzComplete.exists
             /\ uzPc = "rename"
             /\ uzEntry = Len(uzArchive) + 1
             /\ uzComplete' = [ exists |-> TRUE, tree |-> uzIncomplete ]
             /\ uzPc' = "done"
             /\ uzResult' = "complete_path" ]_vars

\* a full archive, a file of the largest size among its entries, extracted and
\* renamed into place
C9_Witness ==
    /\ uzPc = "done"
    /\ uzResult = "complete_path"
    /\ uzEntry = MaxEntries + 1
    /\ uzComplete.exists
    /\ uzIncomplete = NoTree(uzArchive)
    /\ \E k \in 1..Len(uzArchive) :
          ~uzArchive[k].isDirectory /\ uzComplete.tree[k] = MaxEntrySize

(***************************************************************************)
(* fetchGNAFPackageData: the properties.                                   *)
(***************************************************************************)
\* C10: when the network fetch of the manifest fails, a cached entry older
\* than one day and younger than thirty days is returned with the staleness
\* warning; with an entry of thirty days or more, or with no entry, the
\* network error is thrown and no cached body is returned.
C10_StaleOnFetchFailure ==
    (pkPc = "done" /\ pkFetch = "failed") =>
        /\ (pkCached.present /\ pkAge > ONE_DAY_MS /\ pkAge < THIRTY_DAYS_MS) =>
              pkResult = Returned(pkCached.body, "HIT", TRUE)
        /\ (~pkCached.present \/ pkAge >= THIRTY_DAYS_MS) =>
              pkResult = Thrown("network")
        /\ pkCached.present => pkAge > ONE_DAY_MS
        /\ pkCache = pkCached

\* the fetch fails with an entry one second short of thirty days old
C10_Witness ==
    /\ pkPc = "done"
    /\ pkFetch = "failed"
    /\ pkCached.present
    /\ pkAge = THIRTY_DAYS_MS - 1
    /\ pkResult.kind = "returned"
    /\ pkResult.warning

\* C11: a cached manifest of age at most one day (exactly one day included)
\* is returned without a network request and without a change of the entry.
C11_FreshServedFromCache ==
    /\ (pkPc = "done" /\ pkCached.present /\ pkAge <= ONE_DAY_MS) =>
          /\ pkFetch = "none"
          /\ pkResult = Returned(pkCached.body, "HIT", FALSE)
          /\ pkCache = pkCached
    /\ pkPc = "fetch" => ~(pkCached.present /\ pkAge <= ONE_DAY_MS)

\* an entry exactly one day old is returned
C11_Witness ==
    /\ pkPc = "done"
    /\ pkCached.present
    /\ pkAge = ONE_DAY_MS
    /\ pkFetch = "none"
    /\ pkResult.kind = "returned"

\* C12 (as claimed): when the entry is absent or older than one day and the
\* network fetch succeeds, the entry is replaced by the fetched response
\* with cachedAt = now and the fetched response is returned.
C12_FetchedResponseCachedAndReturned ==
    (pkPc = "done" /\ pkFetch = "ok") =>
        /\ pkResult.kind = "returned"
        /\ ~pkResult.warning
        /\ pkCache = CacheEntry(pkResult.body, pkNow)

(***************************************************************************)
(* getCoveredStates: the properties.                                       *)
(***************************************************************************)
\* the closed set of region codes the filter is to be validated against
ClosedStateSet == { "ACT", "NSW", "NT", "OT", "QLD", "SA", "TAS", "VIC", "WA" }

\* C13 (as claimed): an input made only of codes of the closed set
\* {ACT, NSW, NT, OT, QLD, SA, TAS, VIC, WA} is returned as it is; an input
\* with an invalid code gives the empty filter, which covers all regions.
C13_CoveredEqualsValidInput ==
    cvPc = "done" =>
        IF \A k \in 1..Len(cvInput) : cvInput[k] \in ClosedStateSet
        THEN cvCovered = cvInput
        ELSE cvCovered = << >>

(***************************************************************************)
(* The loader and the backend: ids, idempotence.                           *)
(***************************************************************************)
\* the pids of the file's rows, and one no row has
FilePids == 1..(SumTo(csv.chunks, Len(csv.chunks)) + 1)

\* C14: every document the loader submits goes under the id
\* /addresses/{pid} of its own row's pid, and getAddress(pid) reads that
\* very id: a pid that is indexed is answered with its own document, and no
\* pid is answered with the document of another.
C14_IdOfDocumentIsItsPid ==
    /\ \A n \in 1..Len(batches) : \A k \in 1..(Len(batches[n]) \div 2) :
          batches[n][2 * k - 1].index = "/addresses/" \o ToString(batches[n][2 * k].doc)
    /\ \A d \in esIndex : d.id = "/addresses/" \o ToString(d.pid)
    /\ \A addressId \in FilePids :
          LET answer == getAddress(esIndex, addressId, "answers")
          IN  /\ answer.statusCode \in {200, 404}
              /\ answer.statusCode = 200 <=> (\E d \in esIndex : d.pid = addressId)
              /\ answer.statusCode = 200 => answer.pid = addressId
    /\ lookup.statusCode = 200 => lookup.pid = lookup.addressId

\* the second row of a loaded file is read back
C14_Witness ==
    /\ ldStatus = "resolved"
    /\ Len(batches) >= 1
    /\ lookup.statusCode = 200
    /\ lookup.addressId = 2
    /\ lookup.pid = 2
    /\ Cardinality(esIndex) >= 2

\* C15: the backend holds one document per pid at most, a submission of
\* documents it already holds changes nothing, and once a batch is accepted
\* each of its pids is indexed exactly once, whatever earlier failed
\* submissions or an earlier run have left.
C15_ResubmissionIsIdempotent ==
    /\ [](\A pid \in FilePids : Cardinality({ d \in esIndex : d.pid = pid }) <= 1)
    /\ [][ lastBulk' # lastBulk =>
             /\ BodyPairs(lastBulk'.body) \subseteq esIndex => esIndex' = esIndex
             /\ lastBulk'.response = NoBulkResponse =>
                  \A p \in BodyPairs(lastBulk'.body) :
                     Cardinality({ d \in esIndex' : d.pid = p.pid }) = 1 ]_vars

\* a batch accepted on a retry after the backend had taken part of it
C15_Witness ==
    /\ lastBulk.response = NoBulkResponse
    /\ lastBulk.count >= 1
    /\ Len(lastBulk.body) = 2 * MaxChunkRows
    /\ BodyPairs(lastBulk.body) \subseteq esIndex
    /\ Cardinality(esIndex) = MaxChunkRows
    /\ requests = {}

(***************************************************************************)
(* The loader: order of the rows, schedule of the waits.                   *)
(***************************************************************************)
RECURSIVE Flatten(_)
Flatten(seqs) == IF seqs = << >> THEN << >> ELSE Head(seqs) \o Flatten(Tail(seqs))

\* the rows of the chunks delivered so far that the mapper accepts, in file order
MappableRowsDelivered ==
    SelectSeq([ k \in 1..SumTo(csv.chunks, nextChunk - 1) |-> k ],
              LAMBDA row : ~mapAddressDetailsRaises(csv, row))

\* C16 (as claimed): the rows of a file are mapped and submitted in file
\* order: every row parsed so far (but one the mapper rejects) is in exactly
\* one batch, as a directive followed by its document, in file order, the
\* batches being submitted in chunk order.
C16_RowsSubmittedInFileOrder ==
    Flatten(batches) = BuildIndexingBody(MappableRowsDelivered)

\* C17 (as claimed): the wait after the k-th consecutive failed submission
\* is min(cap, initial + (k - 1) * increment), and no wait exceeds the cap.
C17_BackoffSchedule ==
    \A r \in requests :
        r.at = "backoff" =>
            /\ r.backoff = Min(DefaultIndexBackoffMax,
                               ldOpts.initialBackoff + r.count * DefaultIndexBackoffIncrement)
            /\ r.backoff <= DefaultIndexBackoffMax

(***************************************************************************)
(* streamDown: a Range request answered with 200, the overflow check, the  *)
(* two timers.                                                             *)
(***************************************************************************)
\* C18: when a request sent with a Range header is answered with 200, the
\* partial file is deleted and the download restarts from byte 0 without a
\* Range header inside the same attempt: the retry counter, the restart
\* counter and the count of attempts stay as they are, no backoff delay is
\* taken, and a request is a resuming one only as the first of its attempt,
\* so the restart happens at most once per attempt.
C18_RangeIgnoredRestartsInPlace ==
    [][ /\ (pc = "request" /\ req.isResuming /\ pc' = "request" /\ resp'.status = 200) =>
              /\ fileSize' = 0
              /\ req'.range = NoRange
              /\ req'.existingSize = 0
              /\ req'.flags = "w"
              /\ ~req'.isResuming
              /\ req'.retryAttempt = req.retryAttempt
              /\ attempt' = attempt
              /\ restartCount' = restartCount
              /\ attemptsStarted' = attemptsStarted
              /\ delayMs' = delayMs
              /\ result' = result
        /\ (req'.isResuming /\ req' # req) => attemptsStarted' = attemptsStarted + 1
      ]_vars

\* an attempt that began as a resume and now runs its second request, from
\* byte 0 and without a Range header
C18_Witness ==
    /\ pc = "request"
    /\ resp.status = 200
    /\ validation.resumeFromBytes > 0
    /\ req.range = NoRange
    /\ fileSize = 0
    /\ attempt = req.retryAttempt

\* bytesWrittenThisSession <= max(1.01 * expected, expected + 1024)
WithinOverflowThreshold(written, expected) ==
    \/ written * 100 <= expected * 101
    \/ written <= expected + OverflowSlackBytes

C20_TimersFailTheAttemptRetryably ==
    [][ (pc \in {"request", "streaming"} /\ pc' \in {"sleep", "failed"}
            /\ lastError'.code \in {"CONNECT_TIMEOUT", "SOCKET_TIMEOUT"}) =>
          /\ lastError'.code = "CONNECT_TIMEOUT" <=> pc = "request"
          /\ lastError'.code = "SOCKET_TIMEOUT" <=> pc = "streaming"
          /\ isRetryableError(lastError')
          /\ IF attempt < opts.maxRetries
             THEN pc' = "sleep" /\ attempt' = attempt /\ result' = result
             ELSE /\ pc' = "failed"
                  /\ result'.code = lastError'.code
                  /\ result'.isRetryable
                  /\ result'.attempts = opts.maxRetries + 1
      ]_vars

\* a retry pending after the socket-inactivity timer fired on a body that
\* had delivered chunks, in an attempt after the first
C20_Witness ==
    /\ pc = "sleep"
    /\ lastError.code = "SOCKET_TIMEOUT"
    /\ fileSize > 0
    /\ attempt >= 1

(***************************************************************************)
(* streamDown: statuses that are not retried, the backoff of the retries.  *)
(***************************************************************************)
\* C21 (as claimed): a response with a 4xx/5xx status other than 416, 408,
\* 429, 500, 502, 503 and 504 is a non-retryable error: streamDown makes no
\* further attempt after it and rejects with a DownloadError whose
\* isRetryable is false and whose attempts counts the attempts made.
C21_OtherStatusIsNotRetried ==
    \A status \in ErrorStatuses :
        lastError.code = "HTTP_" \o ToString(status) =>
            /\ pc = "failed"
            /\ result.code = lastError.code
            /\ ~result.isRetryable
            /\ result.attempts = attempt + 1

\* |a - b|
AbsDiff(a, b) == IF a >= b THEN a - b ELSE b - a

\* C22: the delay before retry number n is min(initialBackoff *
\* multiplier^n, maxBackoff) varied by at most 25 % of that value, to the
\* nearest millisecond; with the defaults the value before the jitter is
\* 5 s, 10 s, 20 s, 40 s, then 60 s, the cap.
C22_BackoffIsCappedExponentialWithJitter ==
    boPc = "done" =>
        LET capped == Min(boRetry.initialBackoff
                              * Pow(boRetry.backoffMultiplier, boAttempt),
                          boRetry.maxBackoff)
        IN  /\ 4 * AbsDiff(boDelay, capped) <= capped + 2
            /\ boRetry = DefaultRetryConfig =>
                  capped = IF boAttempt = 0 THEN 5000
                           ELSE IF boAttempt = 1 THEN 10000
                           ELSE IF boAttempt = 2 THEN 20000
                           ELSE IF boAttempt = 3 THEN 40000
                           ELSE 60000

\* the fifth retry with the defaults: 80 s capped to 60 s, jittered downwards
C22_Witness ==
    /\ boPc = "done"
    /\ boRetry = DefaultRetryConfig
    /\ boAttempt = 4
    /\ boDelay = 45000

(***************************************************************************)
(* unzipGNAFArchive: which entries are written.                            *)
(***************************************************************************)
\* the file entries of the archive
FileEntries == { k \in 1..Len(uzArchive) : ~uzArchive[k].isDirectory }

\* C23: a file entry is skipped exactly when a file of its name is there
\* with the entry's declared size; any other file entry is written anew,
\* from its first byte; no file changes but through such a write. So a run
\* over a tree whose sizes all match, and a run that finds the completed
\* directory, write no file.
C23_SkipExactlyOnEqualSize ==
    /\ [][ \A k \in FileEntries :
             /\ (uzPc = "entries" /\ uzEntry = k /\ uzPc' \in {"entries", "extracting"}) =>
                   IF uzIncomplete[k] = uzArchive[k].size
                   THEN /\ uzEntry' = k + 1
                        /\ uzPc' = "entries"
                        /\ uzIncomplete' = uzIncomplete
                        /\ uzWritten' = uzWritten
                   ELSE /\ uzPc' = "extracting"
                        /\ uzEntry' = k
                        /\ uzIncomplete'[k] = 0
                        /\ uzWritten' = uzWritten \cup {k}
             /\ (uzIncomplete'[k] # uzIncomplete[k] /\ uzPc # "rename") =>
                   /\ k = uzEntry
                   /\ k \in uzWritten'
         ]_vars
    /\ []((uzPc = "done" /\ uzEntry = 1) => uzWritten = {})

\* a run that found every file entry in place, one of the largest size
\* among them, wrote nothing and renamed the tree
C23_Witness ==
    /\ uzPc = "done"
    /\ uzEntry = MaxEntries + 1
    /\ uzWritten = {}
    /\ FileEntries = 1..MaxEntries
    /\ uzComplete.tree[1] = MaxEntrySize

(***************************************************************************)
(* searchForAddress: the properties.                                       *)
(***************************************************************************)
\* C24 (as claimed): for every page and page size given to
\* searchForAddress the size sent is the page size clamped to
\* [1, MAX_PAGE_SIZE] and the offset sent is (page - 1) * size of the page
\* clamped to [1, MAX_PAGE_NUMBER] and that size; the offset is never
\* negative and the size never below 1.
C24_PaginationIsClamped ==
    seSearch.sent =>
        LET page == IF sePage < 1 THEN 1
                    ELSE IF sePage > MAX_PAGE_NUMBER THEN MAX_PAGE_NUMBER ELSE sePage
            size == IF seSize < 1 THEN 1
                    ELSE IF seSize > MAX_PAGE_SIZE THEN MAX_PAGE_SIZE ELSE seSize
        IN  /\ seSearch.size = size
            /\ seSearch.from = (page - 1) * size
            /\ seSearch.from >= 0
            /\ seSearch.size >= 1

(***************************************************************************)
(* getAddress and getAddresses: a backend that is unavailable.             *)
(***************************************************************************)
\* C25 (as claimed): on the query path a backend that is unavailable, the
\* index missing or the connection failing, is answered with HTTP 503.
C25_UnavailableBackendIs503 ==
    lookup.backend \in {"index_not_found_exception", "ConnectionError"} =>
        lookup.statusCode = 503

(***************************************************************************)
(* C26: a lookup of a code that the table it consults does not list        *)
(* returns the undefined name and logs a diagnostic, for each of the nine  *)
(* tables and both helpers; a lookup leaves every map that is already      *)
(* built as it was (the tables of the context are never written).          *)
(***************************************************************************)
AcLookups == { "propertyCodeToName.js", "propertyCodeToName.ts" }

AnsweredFrom(entries, code, name) ==
    IF \E i \in DOMAIN entries : entries[i].CODE = code
    THEN \E i \in DOMAIN entries : entries[i].CODE = code /\ entries[i].NAME = name
    ELSE name = UndefinedName

C27_ClearUnsetsAllNineMaps ==
    /\ [](acCall.by = "clearAuthorityCodeMaps" =>
            \A t \in AuthorityTables : acMaps[t] = UnsetMap)
    /\ [][\A t \in AuthorityTables :
            /\ ~acMaps[t].defined
            /\ acCall'.by = "propertyCodeToName.js"
            /\ acCall'.table = t
            => /\ AnsweredFrom(ContextOf(acCall'.release)[t],
                               acCall'.code, acCall'.name)
               /\ acMaps'[t].defined]_vars

C27_Witness ==
    /\ acCalls = MaxAcCalls
    /\ acCall.by = "propertyCodeToName.js"
    /\ acCall.table = "LEVEL_TYPE"
    /\ acCall.release = 2
    /\ acCall.code = "B"
    /\ acCall.name = "BETA"
    /\ \A t \in AuthorityTables : acMaps[t].defined <=> t = "LEVEL_TYPE"

(***************************************************************************)
(* C28: the mla of every document has between 1 and 4 lines; mapToMla      *)
(* raises, and returns no rendering, exactly for an address whose          *)
(* groupings ask for more than four lines.                                 *)
(***************************************************************************)
C28_MlaHasOneToFourLines ==
    /\ mlDocument # NoRendering =>
         /\ Len(mlDocument.mla) >= 1
         /\ Len(mlDocument.mla) <= 4
    /\ mlPc \in { "mapped", "raised", "document" } =>
         /\ mlRendering.raised <=> Cardinality(mlAddress) > 4
         /\ mlRendering.raised => mlRendering.mla = << >>
         /\ ~mlRendering.raised => Len(mlRendering.mla) = Cardinality(mlAddress)
    /\ mlPc = "document" => ~mlRendering.raised

C28_Witness ==
    /\ mlPc = "raised"
    /\ Cardinality(mlAddress) = 5
    /\ mlRendering.raised
    /\ Len(mlDocument.mla) = 4

(***************************************************************************)
(* C29: with a progress callback, any two consecutive progress updates of  *)
(* an attempt are at least one progress interval apart.                    *)
(***************************************************************************)
C29_UpdatesAreAnIntervalApart ==
    Len(prUpdates) = 2 =>
        prUpdates[2] - prUpdates[1] >= prOpts.progressInterval

(***************************************************************************)
(* C30: an attempt that fails with a transport error or a timeout leaves   *)
(* the partial file as it is; after a premature close (ECONNRESET) the     *)
(* next attempt of a resuming download asks for Range: bytes={bytes on     *)
(* disk}- and appends; a download completed after a 206 has the total size *)
(* and holds what was on disk plus what this response carried.             *)
(***************************************************************************)
TransportFailureCodes ==
    { "ECONNRESET", "ETIMEDOUT", "CONNECT_TIMEOUT", "SOCKET_TIMEOUT" }

C30_TransportFailureKeepsPartialFile ==
    /\ [][/\ ( /\ pc \in { "request", "streaming" }
               /\ pc' \in { "sleep", "failed" }
               /\ lastError'.code \in TransportFailureCodes )
             => fileSize' = fileSize
          /\ ( /\ pc = "loop"
               /\ pc' = "request"
               /\ lastError.code = "ECONNRESET"
               /\ opts.enableResume
               /\ fileSize > 0 )
             => /\ fileSize' = fileSize
                /\ req'.range = fileSize]_vars
    /\ []( /\ pc = "done"
           /\ resp.status = 206
           /\ resp.totalBytes > 0
           => /\ fileSize = resp.totalBytes
              /\ fileSize = req.existingSize + resp.bytesWrittenThisSession )

(***************************************************************************)
(* C31: following a redirect, attemptDownload writes to the destination of *)
(* the first request, sends the same Range header and carries the same     *)
(* retry-attempt number; a partial file that is being resumed is still     *)
(* there with its bytes.                                                   *)
(***************************************************************************)
C31_RedirectPreservesTheRequest ==
    rdHops \in 1..MaxRedirects =>
        /\ rdCall.resolvedDestination = rdFirst.resolvedDestination
        /\ rdCall.request.range = rdFirst.request.range
        /\ rdCall.request.retryAttempt = rdFirst.request.retryAttempt
        /\ rdFirst.request.isResuming =>
             rdFiles[rdFirst.resolvedDestination] = rdFirst.request.existingSize

C33_ExtractionErrorsAreReported ==
    /\ uzPc = "failed" => uzResult = "rejected"
    /\ ~(uzPc = "stalled" /\ uzResult = "pending")

(***************************************************************************)
(* C34: every document of the index, whichever write path stored it, has   *)
(* its structured address under the field `structured`, the field          *)
(* getAddress reads, and has no field `structurted`; so getAddress of an   *)
(* id the index holds returns a structured address.                        *)
(***************************************************************************)
C34_DocumentsHoldStructured ==
    /\ \A id \in IxIds :
          ixSource[id] # NoSource =>
             /\ ixSource[id].structured \in IxStructured
             /\ ixSource[id].structurted = IxUndefined

(***************************************************************************)
(* C35: at any time at most one attemptDownload call can write to the      *)
(* destination file: no two calls have the file open with a request that   *)
(* can still deliver data, and a call that has failed has closed it.       *)
(***************************************************************************)
C35_OneWriterAtATime ==
    /\ Cardinality({ i \in DOMAIN wrCalls :
                       wrCalls[i].fileOpen /\ wrCalls[i].reqAlive }) <= 1
    /\ \A i \in DOMAIN wrCalls : wrCalls[i].aborted => ~wrCalls[i].fileOpen

(***************************************************************************)
(* C36: when every request is eventually answered, fails or times out, a   *)
(* streamDown call eventually resolves or rejects, whatever the server     *)
(* answers.                                                                *)
(***************************************************************************)
C36_StreamDownSettles == <>(pc \in { "done", "failed" })

(***************************************************************************)
(* C37: when loadGNAFAddress has resolved, every chunk of the file has     *)
(* been delivered, no bulk submission is pending, the batches submitted    *)
(* are the rows of the file, every one of them is in the index, the last   *)
(* bulk response reported no error, and actualCount, which is compared     *)
(* with the expected count, is the number of rows submitted.               *)
(***************************************************************************)
C37_ResolvesAfterEveryChunkAcknowledged ==
    ldStatus = "resolved" =>
        /\ requests = {}
        /\ ~paused
        /\ nextChunk > Len(csv.chunks)
        /\ Flatten(batches) = Flatten([ i \in 1..Len(csv.chunks) |-> ChunkBatch(i) ])
        /\ BodyIds(Flatten(batches)) \subseteq EsIds(esIndex)
        /\ ~lastBulk.response.thrown /\ ~BulkResponseFailed(lastBulk.response)
        /\ 2 * actualCount = Len(Flatten(batches))
        /\ actualCount = SumTo(csv.chunks, Len(csv.chunks))

\* a file of two full chunks has resolved, its last batch accepted after
\* a failed submission
C37_Witness ==
    /\ ldStatus = "resolved"
    /\ Len(csv.chunks) = MaxChunks
    /\ actualCount = MaxChunks * MaxChunkRows
    /\ lastBulk.chunk = MaxChunks
    /\ lastBulk.count > 0
    /\ lookup = NoLookup

(***************************************************************************)
(* C38: a map that is built changes only by clearAuthorityCodeMaps; a map  *)
(* gets built only by a lookup of its table that finds it unset, from the  *)
(* context passed to that lookup; and a lookup that finds its map built is *)
(* answered from that map, whatever context it is passed.                  *)
(***************************************************************************)
C38_MapBuiltOncePerReset ==
    [][\A t \in AuthorityTables :
          /\ (acMaps[t].defined /\ acMaps'[t] # acMaps[t]) =>
                /\ acCall'.by = "clearAuthorityCodeMaps"
                /\ acMaps'[t] = UnsetMap
          /\ (~acMaps[t].defined /\ acMaps'[t].defined) =>
                /\ acCall'.by = "propertyCodeToName.js"
                /\ acCall'.table = t
                /\ acMaps'[t] = buildCodeMap(ContextOf(acCall'.release)[t])
          /\ (/\ acMaps[t].defined
              /\ acCall'.by = "propertyCodeToName.js"
              /\ acCall'.table = t) =>
                acCall'.name = MapGet(acMaps[t], acCall'.code)]_vars

\* a lookup passed the second release is answered from the map built from
\* the first, which does not list the code
C38_Witness ==
    /\ acCalls >= 2
    /\ acCall.by = "propertyCodeToName.js"
    /\ acCall.table = "FLAT_TYPE"
    /\ acCall.release = 2
    /\ acCall.code = "B"
    /\ acCall.name = UndefinedName
    /\ acMaps["FLAT_TYPE"] = buildCodeMap(ContextOf(1)["FLAT_TYPE"])

(***************************************************************************)
(* C39: a lookup through a map built from the context it is passed         *)
(* returns the name the scan of that context's table returns for the code, *)
(* for every table and code.                                               *)
(***************************************************************************)
C39_MapLookupEqualsScan ==
    (/\ acCall.by = "propertyCodeToName.js"
     /\ acMaps[acCall.table] = buildCodeMap(ContextOf(acCall.release)[acCall.table]))
    => acCall.name = FindName(ContextOf(acCall.release)[acCall.table], acCall.code)

====
